---- MODULE Spec2Model ----
(***************************************************************************)
(* Model of the ReAct question-answering agent of react_cricket_agent.py:  *)
(* the question validator, the entity extractor, the action planner, the   *)
(* data analyzer over the entry-point table, the observation builder and   *)
(* the response generator, with the session's conversation history.        *)
(* Texts are TLA+ strings; Python's `in`, lower(), split() and re.findall  *)
(* are computed character by character.                                    *)
(***************************************************************************)
EXTENDS Integers, Sequences, FiniteSets, TLC

VARIABLES df, entry_points, has_metric_cols, conversation_history, question, call

vars == <<df, entry_points, has_metric_cols, conversation_history, question, call>>

(***************************************************************************)
(* Bounds of the model.                                                    *)
(***************************************************************************)
MaxWords == 2
MaxHistory == 2
MaxRows == 3
MaxBalls == 2

(***************************************************************************)
(* String primitives.                                                      *)
(***************************************************************************)
NL == "\n"

Min(S) == CHOOSE x \in S : \A y \in S : x <= y

CharAt(s, i) == IF i >= 1 /\ i <= Len(s) THEN SubSeq(s, i, i) ELSE ""

\* Python: k in s (substring test)
Contains(s, k) == \E i \in 1..(Len(s) - Len(k) + 1) : SubSeq(s, i, i + Len(k) - 1) = k

\* Python: s.startswith(k)
StartsWith(s, k) == Len(k) <= Len(s) /\ SubSeq(s, 1, Len(k)) = k

\* first index >= from at which k occurs in s, 0 when there is none (str.find)
Find(s, k, from) ==
    LET hits == {i \in from..(Len(s) - Len(k) + 1) : SubSeq(s, i, i + Len(k) - 1) = k}
    IN  IF hits = {} THEN 0 ELSE Min(hits)

UpperToLower ==
    [c \in {"A","B","C","D","E","F","G","H","I","J","K","L","M",
            "N","O","P","Q","R","S","T","U","V","W","X","Y","Z"} |->
        CASE c = "A" -> "a" [] c = "B" -> "b" [] c = "C" -> "c" [] c = "D" -> "d"
          [] c = "E" -> "e" [] c = "F" -> "f" [] c = "G" -> "g" [] c = "H" -> "h"
          [] c = "I" -> "i" [] c = "J" -> "j" [] c = "K" -> "k" [] c = "L" -> "l"
          [] c = "M" -> "m" [] c = "N" -> "n" [] c = "O" -> "o" [] c = "P" -> "p"
          [] c = "Q" -> "q" [] c = "R" -> "r" [] c = "S" -> "s" [] c = "T" -> "t"
          [] c = "U" -> "u" [] c = "V" -> "v" [] c = "W" -> "w" [] c = "X" -> "x"
          [] c = "Y" -> "y" [] c = "Z" -> "z"]

LowerLetters == {UpperToLower[c] : c \in DOMAIN UpperToLower}

LowerToUpper == [l \in LowerLetters |-> CHOOSE c \in DOMAIN UpperToLower : UpperToLower[c] = l]

RECURSIVE MapChars(_, _)
\* applies the character map m to every character of s (divide and conquer)
MapChars(m, s) ==
    IF Len(s) = 0 THEN ""
    ELSE IF Len(s) = 1 THEN (IF s \in DOMAIN m THEN m[s] ELSE s)
    ELSE LET h == Len(s) \div 2
         IN  MapChars(m, SubSeq(s, 1, h)) \o MapChars(m, SubSeq(s, h + 1, Len(s)))

\* Python: s.lower()
Lower(s) == MapChars(UpperToLower, s)

\* Python: s.upper()
Upper(s) == MapChars(LowerToUpper, s)

\* Python: s.replace('_', ' ')
ReplaceUnderscore(s) == MapChars([c \in {"_"} |-> " "], s)

RECURSIVE Join(_, _)
\* Python: sep.join(parts)
Join(sep, parts) ==
    IF Len(parts) = 0 THEN ""
    ELSE IF Len(parts) = 1 THEN parts[1]
    ELSE parts[1] \o sep \o Join(sep, Tail(parts))

\* Python: s.split(sep), for a separator that cannot overlap itself: the
\* pieces between the occurrences of sep
Split(s, sep) ==
    LET hits == {i \in 1..(Len(s) - Len(sep) + 1) : SubSeq(s, i, i + Len(sep) - 1) = sep}
        hit(k) == CHOOSE x \in hits : Cardinality({y \in hits : y < x}) = k - 1
    IN  [k \in 1..(Cardinality(hits) + 1) |->
            SubSeq(s,
                   IF k = 1 THEN 1 ELSE hit(k - 1) + Len(sep),
                   IF k = Cardinality(hits) + 1 THEN Len(s) ELSE hit(k) - 1)]

Whitespace == {" ", NL}

\* Python: s.strip()
Strip(s) ==
    LET keep == {i \in 1..Len(s) : SubSeq(s, i, i) \notin Whitespace}
    IN  IF keep = {} THEN ""
        ELSE SubSeq(s, Min(keep), CHOOSE j \in keep : \A k \in keep : k <= j)

RECURSIVE SplitWordsFrom(_, _)
SplitWordsFrom(s, p) ==
    LET starts == {i \in p..Len(s) : SubSeq(s, i, i) \notin Whitespace}
    IN  IF starts = {} THEN <<>>
        ELSE LET b == Min(starts)
                 ends == {j \in b..Len(s) : SubSeq(s, j, j) \in Whitespace}
                 e == IF ends = {} THEN Len(s) + 1 ELSE Min(ends)
             IN  <<SubSeq(s, b, e - 1)>> \o SplitWordsFrom(s, e)

\* Python: s.split() (on runs of whitespace)
SplitWords(s) == SplitWordsFrom(s, 1)

Range(f) == {f[i] : i \in DOMAIN f}

\* Python: any(w in s for w in words)
ContainsAny(s, words) == \E i \in DOMAIN words : Contains(s, words[i])

\* the value None where a text is expected (no text of the program equals it)
None == "<None>"

(***************************************************************************)
(* Question Validator: ReActCricketAgent._validate_question                *)
(***************************************************************************)
available_data ==
    <<"player names", "teams", "matches", "overs", "years",
      "runs", "balls faced", "strike rate", "dot percentage",
      "boundary percentage", "entry phase (powerplay/middle/death)",
      "innings duration", "entry over", "exit over">>

\* the dict unavailable_concepts, in its insertion order
unavailable_concepts ==
    << [type |-> "bowling_type",
        keywords |-> <<"spin", "pace", "fast", "seam", "off-spin", "leg-spin", "left-arm", "right-arm">>],
       [type |-> "bowler_identity", keywords |-> <<"bowler", "against", "facing">>],
       [type |-> "ball_by_ball", keywords |-> <<"ball-by-ball", "delivery", "specific ball">>],
       [type |-> "fielding", keywords |-> <<"fielding", "catches", "run-outs", "field placement">>],
       [type |-> "bowling_stats",
        keywords |-> <<"wickets taken", "economy rate", "bowling average", "bowling strike rate">>],
       [type |-> "match_outcome", keywords |-> <<"win", "loss", "result", "victory">>],
       [type |-> "venue", keywords |-> <<"ground", "stadium", "venue", "pitch">>],
       [type |-> "weather", keywords |-> <<"weather", "rain", "dew">>],
       [type |-> "toss", keywords |-> <<"toss", "bat first", "chase">>] >>

RECURSIVE FlattenConcepts(_)
\* the (concept_type, keyword) pairs in the order the two nested loops visit them
FlattenConcepts(i) ==
    IF i > Len(unavailable_concepts) THEN <<>>
    ELSE [k \in 1..Len(unavailable_concepts[i].keywords) |->
             [concept_type |-> unavailable_concepts[i].type,
              keyword |-> unavailable_concepts[i].keywords[k]]]
         \o FlattenConcepts(i + 1)

KeywordList == FlattenConcepts(1)

team_words == <<"team", "mi", "csk", "rcb", "kkr", "dc", "pbks", "rr", "srh", "gt", "lsg">>

comparison_names == <<"kohli", "rohit", "dhoni", "pandya", "sharma">>

\* the two `continue` branches of the special handling of "against"
AgainstAllowed(question_lower) ==
    \/ ContainsAny(question_lower, team_words)
    \/ Contains(question_lower, "compare")
    \/ ContainsAny(question_lower, comparison_names)

\* the three message templates (the warning sign that opens the heading is
\* not an ASCII character and is left out of the heading line)
MessageHead == NL \o "**Question Out of Bounds**" \o NL \o NL

MessageFields == NL \o "**Available data fields:** " \o Join(", ", available_data) \o NL

BowlingTypeAdvice ==
    NL \o "**What we CAN analyze:**" \o NL
    \o "- Player performance by **entry phase** (Powerplay overs 1-6, Middle overs 7-15, Death overs 16-20)" \o NL
    \o "- Strike rates, runs, balls faced, dot%, boundary%" \o NL
    \o "- Performance by team, year, and match" \o NL
    \o "- Entry timing and innings duration" \o NL \o NL
    \o "**What we CANNOT analyze:**" \o NL
    \o "- Performance against specific bowling types (spin/pace)" \o NL
    \o "- Performance against specific bowlers" \o NL
    \o "- Ball-by-ball details" \o NL \o NL
    \o "**Try asking instead:**" \o NL
    \o "- \"Which players perform best in middle overs?\" (instead of \"against spin\")" \o NL
    \o "- \"Who are the best death-overs finishers?\"" \o NL
    \o "- \"How does [player] perform in the powerplay?\"" \o NL

BowlerIdentityAdvice ==
    NL \o "**What we CAN analyze:**" \o NL
    \o "- Batting performance by entry phase (Powerplay/Middle/Death)" \o NL
    \o "- Player strike rates, runs, efficiency metrics" \o NL
    \o "- Team and year-based analysis" \o NL \o NL
    \o "**What we CANNOT analyze:**" \o NL
    \o "- Performance against specific bowlers" \o NL
    \o "- Bowler vs batsman matchups" \o NL \o NL
    \o "**Try asking instead:**" \o NL
    \o "- \"Which batsmen perform best in [phase]?\"" \o NL
    \o "- \"How does [player] perform when entering in the death overs?\"" \o NL

OtherConceptAdvice ==
    NL \o "**What we CAN analyze:**" \o NL
    \o "- Player batting performance by entry phase (Powerplay/Middle/Death)" \o NL
    \o "- Strike rates, runs, balls faced, dot%, boundary%" \o NL
    \o "- Performance by team, year, and match" \o NL
    \o "- Entry timing and innings duration" \o NL

RejectionMessage(concept_type, keyword) ==
    IF concept_type = "bowling_type" THEN
        MessageHead \o "Your question mentions **bowling type** (\"" \o keyword
            \o "\"), but our dataset doesn't contain this information." \o NL
            \o BowlingTypeAdvice \o MessageFields
    ELSE IF concept_type = "bowler_identity" THEN
        MessageHead \o "Your question asks about **specific bowlers or bowling matchups**, "
            \o "but our dataset only contains batting statistics." \o NL
            \o BowlerIdentityAdvice \o MessageFields
    ELSE
        MessageHead \o "Your question asks about **" \o ReplaceUnderscore(concept_type)
            \o "**, which is not available in our dataset." \o NL
            \o OtherConceptAdvice \o MessageFields \o NL
            \o "**Try rephrasing your question** to focus on batting performance metrics and entry phases."
            \o NL

\* variant of the loop below in which "against" never rejects, whatever
\* else the question holds
RejectingHitsAgainstExempt(question_lower) ==
    {i \in 1..Len(KeywordList) :
        /\ Contains(question_lower, KeywordList[i].keyword)
        /\ KeywordList[i].keyword # "against"}

\* the keyword hits on which the loop returns, by position in KeywordList
RejectingHits(question_lower) ==
    {i \in 1..Len(KeywordList) :
        /\ Contains(question_lower, KeywordList[i].keyword)
        /\ ~(KeywordList[i].keyword = "against" /\ AgainstAllowed(question_lower))}

\* variant of validate_question that returns on the keyword hit that comes
\* first in the text of the question
ValidateByTextPosition(q) ==
    LET question_lower == Lower(q)
        hits == RejectingHits(question_lower)
    IN  IF hits = {} THEN [is_valid |-> TRUE, message |-> None]
        ELSE LET h == KeywordList[CHOOSE i \in hits : \A j \in hits :
                          Find(question_lower, KeywordList[i].keyword, 1)
                              <= Find(question_lower, KeywordList[j].keyword, 1)]
             IN  [is_valid |-> FALSE, message |-> RejectionMessage(h.concept_type, h.keyword)]

validate_question(q) ==
    LET question_lower == Lower(q)
        hits == RejectingHits(question_lower)
    IN  IF hits = {} THEN [is_valid |-> TRUE, message |-> None]
        ELSE LET h == KeywordList[Min(hits)]
             IN  [is_valid |-> FALSE, message |-> RejectionMessage(h.concept_type, h.keyword)]

(***************************************************************************)
(* Entity Extractor: ReActCricketAgent._extract_entities                   *)
(***************************************************************************)
WordChars == LowerLetters \cup DOMAIN UpperToLower
               \cup {"0","1","2","3","4","5","6","7","8","9","_"}

\* regex \b at the gap before position p
Boundary(s, p) == (CharAt(s, p - 1) \in WordChars) # (CharAt(s, p) \in WordChars)

\* regex \s* from position p: the position after the run of whitespace
SkipSpaces(s, p) == Min({j \in p..(Len(s) + 1) : CharAt(s, j) \notin Whitespace})

\* player_patterns: each pattern is \b( alternative | alternative )\b, an
\* alternative is its literal parts, joined by \s*, and an optional last letter
player_patterns ==
    << << [parts |-> <<"hardik", "pandy">>, opt |-> "a"], [parts |-> <<"pandya">>, opt |-> ""] >>,
       << [parts |-> <<"virat", "kohli">>, opt |-> ""], [parts |-> <<"kohli">>, opt |-> ""] >>,
       << [parts |-> <<"ms", "dhoni">>, opt |-> ""], [parts |-> <<"dhoni">>, opt |-> ""] >>,
       << [parts |-> <<"rohit", "sharma">>, opt |-> ""], [parts |-> <<"rohit">>, opt |-> ""] >>,
       << [parts |-> <<"kl", "rahul">>, opt |-> ""], [parts |-> <<"rahul">>, opt |-> ""] >>,
       << [parts |-> <<"david", "warner">>, opt |-> ""], [parts |-> <<"warner">>, opt |-> ""] >>,
       << [parts |-> <<"ab", "de", "villiers">>, opt |-> ""], [parts |-> <<"abd">>, opt |-> ""] >> >>

RECURSIVE MatchParts(_, _, _, _)
\* the position after parts[k..] matched at p, 0 when they do not match
MatchParts(parts, k, s, p) ==
    IF k > Len(parts) THEN p
    ELSE LET e == p + Len(parts[k])
         IN  IF e - 1 <= Len(s) /\ SubSeq(s, p, e - 1) = parts[k]
             THEN MatchParts(parts, k + 1, s, IF k < Len(parts) THEN SkipSpaces(s, e) ELSE e)
             ELSE 0

\* the position after a match of one alternative at i (followed by \b), or 0
MatchAlternative(alt, s, i) ==
    LET e == MatchParts(alt.parts, 1, s, i)
    IN  IF e = 0 THEN 0
        ELSE IF alt.opt # "" /\ CharAt(s, e) = alt.opt /\ Boundary(s, e + 1) THEN e + 1
        ELSE IF Boundary(s, e) THEN e
        ELSE 0

\* the position after the match of the pattern starting at i, or 0
MatchAt(pattern, s, i) ==
    IF ~Boundary(s, i) THEN 0
    ELSE LET ok == {a \in 1..Len(pattern) : MatchAlternative(pattern[a], s, i) # 0}
         IN  IF ok = {} THEN 0 ELSE MatchAlternative(pattern[Min(ok)], s, i)

RECURSIVE Scan(_, _, _, _)
Scan(pattern, s, starts, from) ==
    LET cand == {i \in starts : i >= from}
    IN  IF cand = {} THEN <<>>
        ELSE LET i == Min(cand)
                 e == MatchAt(pattern, s, i)
             IN  <<SubSeq(s, i, e - 1)>> \o Scan(pattern, s, starts, e)

\* Python: re.findall(pattern, s), the non-overlapping matches left to right
FindAll(pattern, s) ==
    Scan(pattern, s, {i \in 1..Len(s) : MatchAt(pattern, s, i) # 0}, 1)

RECURSIVE ExtractPlayers(_, _)
ExtractPlayers(question_lower, i) ==
    IF i > Len(player_patterns) THEN <<>>
    ELSE FindAll(player_patterns[i], question_lower) \o ExtractPlayers(question_lower, i + 1)

deployment_words == <<"when", "should", "deploy", "play">>
recommendation_words == <<"best", "top", "who">>
comparison_words == <<"compare", "vs", "versus">>

\* variant of the chain below that tests the comparison words first
IntentComparisonFirst(question_lower) ==
    IF ContainsAny(question_lower, comparison_words) THEN "comparison"
    ELSE IF ContainsAny(question_lower, deployment_words) THEN "deployment"
    ELSE IF ContainsAny(question_lower, recommendation_words) THEN "recommendation"
    ELSE "general"

Intent(question_lower) ==
    IF ContainsAny(question_lower, deployment_words) THEN "deployment"
    ELSE IF ContainsAny(question_lower, recommendation_words) THEN "recommendation"
    ELSE IF ContainsAny(question_lower, comparison_words) THEN "comparison"
    ELSE "general"

extract_entities(q) ==
    LET question_lower == Lower(q)
    IN  [players |-> ExtractPlayers(question_lower, 1),
         teams |-> <<>>,
         bowling_types |->
             (IF Contains(question_lower, "spin") THEN <<"spin">> ELSE <<>>)
             \o (IF Contains(question_lower, "pace") \/ Contains(question_lower, "fast")
                 THEN <<"pace">> ELSE <<>>),
         phases |->
             (IF Contains(question_lower, "powerplay") \/ Contains(question_lower, "power play")
              THEN <<"powerplay">> ELSE <<>>)
             \o (IF \/ Contains(question_lower, "death") \/ Contains(question_lower, "death over")
                    \/ Contains(question_lower, "final over") \/ Contains(question_lower, "last over")
                 THEN <<"death">> ELSE <<>>)
             \o (IF Contains(question_lower, "middle") \/ Contains(question_lower, "middle over")
                 THEN <<"middle">> ELSE <<>>),
         intent |-> Intent(question_lower)]

(***************************************************************************)
(* Action Planner: ReActCricketAgent._reason_and_plan                      *)
(***************************************************************************)
general_recommendation_phrases ==
    <<"who are", "who is best", "best players", "top players", "best batsmen",
      "best bowlers", "top performers", "which players">>

batting_order_phrases ==
    <<"batting order", "batting lineup", "batting line up", "order for",
      "who should open", "who should bat", "lineup for", "line up for",
      "optimal order", "best order", "batting positions", "who bats where",
      "chasing", "chase", "defending", "defend">>

is_general_recommendation(q) == ContainsAny(Lower(q), general_recommendation_phrases)

is_batting_order_question(q) == ContainsAny(Lower(q), batting_order_phrases)

\* variant of the `if` below without its test of the question's phrasing
PlayerActionsForAnyQuestion(q, entities) ==
    [i \in 1..Len(entities.players) |-> "get_player_stats:" \o entities.players[i]]

\* the first, independent `if`: one statistics lookup per extracted player
PlayerActions(q, entities) ==
    IF Len(entities.players) > 0 /\ ~is_general_recommendation(q)
    THEN [i \in 1..Len(entities.players) |-> "get_player_stats:" \o entities.players[i]]
    ELSE <<>>

\* the second, independent `if`: the bowling-type note
NoteActions(entities) ==
    IF Len(entities.bowling_types) > 0 THEN <<"note:bowling_type_unavailable">> ELSE <<>>

\* variant of the chain below with its branches as independent `if`s
PhaseActionsIndependent(q, entities) ==
    (IF is_batting_order_question(q)
     THEN <<"get_diverse_players_for_phase:powerplay",
            "get_diverse_players_for_phase:middle",
            "get_diverse_players_for_phase:death">>
     ELSE <<>>)
    \o [i \in 1..Len(entities.phases) |-> "get_best_players_for_phase:" \o entities.phases[i]]

\* the if / elif / elif chain of phase lookups
PhaseActions(q, entities) ==
    IF is_batting_order_question(q) THEN
        <<"get_diverse_players_for_phase:powerplay",
          "get_diverse_players_for_phase:middle",
          "get_diverse_players_for_phase:death">>
    ELSE IF Len(entities.phases) > 0 THEN
        [i \in 1..Len(entities.phases) |-> "get_best_players_for_phase:" \o entities.phases[i]]
    ELSE IF \/ is_general_recommendation(q)
            \/ (entities.intent = "recommendation" /\ Len(entities.players) = 0) THEN
        (IF Len(entities.phases) > 0
         THEN [i \in 1..Len(entities.phases) |-> "get_best_players_for_phase:" \o entities.phases[i]]
         ELSE <<"get_best_players_for_phase:death">>)
    ELSE <<>>

reason_and_plan(q, entities) ==
    LET actions == PlayerActions(q, entities) \o NoteActions(entities) \o PhaseActions(q, entities)
    IN  IF Len(actions) = 0 THEN <<"get_best_players_for_phase:powerplay">> ELSE actions

(***************************************************************************)
(* Data Analyzer: CricketDataAnalyzer.  entry_points is the sequence of    *)
(* entry-point rows; has_metric_cols tells whether the loaded table has    *)
(* the Dot_Pct and Bnd_Pct columns.  Strike rates and runs are integers,   *)
(* a mean is kept as (sum, count) and rounded to tenths where the code     *)
(* rounds.                                                                 *)
(***************************************************************************)
\* the Entry_Phase lambda
EntryPhase(over) == IF over <= 6 THEN "Powerplay" ELSE IF over <= 15 THEN "Middle" ELSE "Death"

phase_map == [powerplay |-> "Powerplay", middle |-> "Middle", death |-> "Death"]

\* phase_map.get(phase.lower(), phase)
TargetPhase(phase) ==
    LET k == Lower(phase) IN IF k \in DOMAIN phase_map THEN phase_map[k] ELSE phase

\* process_ballbyball_data.py: the same lambda on the entry over
BallByBallEntryPhase(over) ==
    IF over <= 6 THEN "Powerplay" ELSE IF over <= 15 THEN "Middle" ELSE "Death"

\* process_ball_position_data.py: categorize_entry_phase (an over that is not
\* NaN)
categorize_entry_phase(over) ==
    IF over < 6 THEN "Powerplay (0-6)"
    ELSE IF over < 16 THEN "Middle (7-15)"
    ELSE "Death (16-20)"

RECURSIVE SumSeq(_)
SumSeq(s) == IF Len(s) = 0 THEN 0 ELSE Head(s) + SumSeq(Tail(s))

Max(S) == CHOOSE x \in S : \A y \in S : y <= x

\* round(num / den, 1) in tenths; an exact tie rounds to the even tenth
Round1(num, den) ==
    LET q == (10 * num) \div den
        r == (10 * num) % den
    IN  IF 2 * r < den THEN q
        ELSE IF 2 * r > den THEN q + 1
        ELSE IF q % 2 = 0 THEN q ELSE q + 1

\* str() of a float held in tenths
FormatTenths(t) == ToString(t \div 10) \o "." \o ToString(t % 10)

AsciiOrder == " '-.0123456789ABCDEFGHIJKLMNOPQRSTUVWXYZ_abcdefghijklmnopqrstuvwxyz"

\* Python: a < b on strings
StrLess(a, b) ==
    LET n == IF Len(a) < Len(b) THEN Len(a) ELSE Len(b)
        diff == {i \in 1..n : CharAt(a, i) # CharAt(b, i)}
    IN  IF diff = {} THEN Len(a) < Len(b)
        ELSE Find(AsciiOrder, CharAt(a, Min(diff)), 1) < Find(AsciiOrder, CharAt(b, Min(diff)), 1)

RECURSIVE SortStrings(_)
\* sorted(S)
SortStrings(S) ==
    IF S = {} THEN <<>>
    ELSE LET m == CHOOSE x \in S : \A y \in S \ {x} : StrLess(x, y)
         IN  <<m>> \o SortStrings(S \ {m})

RECURSIVE Unique(_)
\* Series.unique(): the distinct values in order of first appearance
Unique(s) ==
    IF Len(s) = 0 THEN <<>>
    ELSE LET rest == Unique(SubSeq(s, 1, Len(s) - 1))
         IN  IF s[Len(s)] \in Range(rest) THEN rest ELSE Append(rest, s[Len(s)])

Column(rows, c) == [i \in 1..Len(rows) |-> rows[i][c]]

RowsOfPlayer(rows, p) == SelectSeq(rows, LAMBDA r : r.Player = p)

(***************************************************************************)
(* difflib.get_close_matches as get_player_stats calls it                  *)
(***************************************************************************)
\* find_longest_match: the longest common block, earliest in a, then in b
LongestMatch(a, alo, ahi, b, blo, bhi) ==
    LET blocks == {t \in (alo..ahi) \X (blo..bhi) \X (1..(ahi - alo + 1)) :
                      /\ t[1] + t[3] - 1 <= ahi
                      /\ t[2] + t[3] - 1 <= bhi
                      /\ SubSeq(a, t[1], t[1] + t[3] - 1) = SubSeq(b, t[2], t[2] + t[3] - 1)}
    IN  IF blocks = {} THEN <<alo, blo, 0>>
        ELSE CHOOSE t \in blocks : \A u \in blocks :
                 \/ t[3] > u[3]
                 \/ (t[3] = u[3] /\ t[1] < u[1])
                 \/ (t[3] = u[3] /\ t[1] = u[1] /\ t[2] <= u[2])

RECURSIVE MatchingChars(_, _, _, _, _, _)
\* the total size of get_matching_blocks on a[alo..ahi], b[blo..bhi]
MatchingChars(a, alo, ahi, b, blo, bhi) ==
    IF alo > ahi \/ blo > bhi THEN 0
    ELSE LET m == LongestMatch(a, alo, ahi, b, blo, bhi)
         IN  IF m[3] = 0 THEN 0
             ELSE m[3] + MatchingChars(a, alo, m[1] - 1, b, blo, m[2] - 1)
                       + MatchingChars(a, m[1] + m[3], ahi, b, m[2] + m[3], bhi)

\* SequenceMatcher(a, b).ratio() as the pair (2 * matches, total length)
Ratio(a, b) == <<2 * MatchingChars(a, 1, Len(a), b, 1, Len(b)), Len(a) + Len(b)>>

\* cutoff=0.6, in tenths
FuzzyCutoffTenths == 6

\* n=3
FuzzyMaxMatches == 3

RatioAtLeastCutoff(r) == IF r[2] = 0 THEN TRUE ELSE 10 * r[1] >= FuzzyCutoffTenths * r[2]

\* (score, x) > (score', x') under Python's tuple order
ScoredGreater(word, x, y) ==
    LET rx == Ratio(x, word)
        ry == Ratio(y, word)
    IN  \/ rx[1] * ry[2] > ry[1] * rx[2]
        \/ (rx[1] * ry[2] = ry[1] * rx[2] /\ StrLess(y, x))

RECURSIVE BestFirst(_, _, _)
BestFirst(word, S, n) ==
    IF S = {} \/ n = 0 THEN <<>>
    ELSE LET m == CHOOSE x \in S : \A y \in S \ {x} : ScoredGreater(word, x, y)
         IN  <<m>> \o BestFirst(word, S \ {m}, n - 1)

\* variant of get_close_matches that finds no match
NoCloseMatches(word, possibilities) == <<>>

\* get_close_matches(word, possibilities, n=3, cutoff=0.6)
get_close_matches(word, possibilities) ==
    BestFirst(word, {x \in Range(possibilities) : RatioAtLeastCutoff(Ratio(x, word))},
              FuzzyMaxMatches)

(***************************************************************************)
(* CricketDataAnalyzer.get_player_stats                                    *)
(* A result is [kind |-> "none"] for None, [kind |-> "raise", error] for a *)
(* raised exception, [kind |-> "stats", ...] for the summary dict.         *)
(***************************************************************************)
NoneResult == [kind |-> "none"]

\* the KeyError of a groupby aggregation that names a missing column
MissingColumnsError == "\"Column(s) ['Bnd_Pct', 'Dot_Pct'] do not exist\""

\* layer 1: Player.str.contains(player_name, case=False)
SubstringRows(rows, player_name) ==
    SelectSeq(rows, LAMBDA r : Contains(Lower(r.Player), Lower(player_name)))

\* `not matched_player`
Falsy(p) == p = None \/ p = ""

\* next(p for p in all_players if p.lower() == match)
FirstWithLower(all_players, match) ==
    all_players[Min({i \in 1..Len(all_players) : Lower(all_players[i]) = match})]

\* `if matches:` the first match that holds every input word, else the best one
ChosenMatch(all_players, input_words, matches) ==
    LET perfect == {k \in 1..Len(matches) : input_words \subseteq Range(SplitWords(matches[k]))}
    IN  IF Len(matches) = 0 THEN None
        ELSE IF perfect # {} THEN FirstWithLower(all_players, matches[Min(perfect)])
        ELSE FirstWithLower(all_players, matches[1])

\* Strategy 1: fuzzy match on the full name
FuzzyStrategy(all_players, player_name) ==
    ChosenMatch(all_players,
                Range(SplitWords(Lower(player_name))),
                get_close_matches(Lower(player_name),
                                  [i \in 1..Len(all_players) |-> Lower(all_players[i])]))

\* Strategy 2: last name as a whole word; several candidates: the one with most rows
LastNameStrategy(rows, all_players, player_name) ==
    LET words == SplitWords(player_name)
        last_name == IF Contains(player_name, " ") THEN words[Len(words)] ELSE player_name
        candidates == SelectSeq(all_players,
                                LAMBDA p : Lower(last_name) \in Range(SplitWords(Lower(p))))
        count(p) == Len(RowsOfPlayer(rows, p))
    IN  IF Len(candidates) = 0 THEN None
        ELSE IF Len(candidates) = 1 THEN candidates[1]
        ELSE candidates[Min({i \in 1..Len(candidates) :
                                \A j \in 1..Len(candidates) : count(candidates[j]) <= count(candidates[i])})]

\* variant of strategy 3 that compares the first name as it was typed
FirstNameAsTyped(all_players, player_name) ==
    LET first_name == SplitWords(player_name)[1]
        candidates == SelectSeq(all_players, LAMBDA p : Contains(p, first_name))
    IN  IF Len(candidates) = 1 THEN candidates[1] ELSE None

\* Strategy 3: first name, when exactly one player contains it
FirstNameStrategy(all_players, player_name) ==
    LET first_name == SplitWords(player_name)[1]
        candidates == SelectSeq(all_players, LAMBDA p : Contains(Lower(p), Lower(first_name)))
    IN  IF Len(candidates) = 1 THEN candidates[1] ELSE None

\* `if not matched_player:` before strategy 2
OrLastName(rows, all_players, player_name, matched_player) ==
    IF Falsy(matched_player)
    THEN LastNameStrategy(rows, all_players, player_name)
    ELSE matched_player

\* `if not matched_player and ' ' in player_name:` before strategy 3
OrFirstName(all_players, player_name, matched_player) ==
    IF Falsy(matched_player) /\ Contains(player_name, " ")
    THEN FirstNameStrategy(all_players, player_name)
    ELSE matched_player

\* the three strategies in turn over all_players
MatchedAmong(rows, all_players, player_name) ==
    OrFirstName(all_players, player_name,
                OrLastName(rows, all_players, player_name,
                           FuzzyStrategy(all_players, player_name)))

\* the fuzzy branch, lines 92-138: the matched player or None
MatchedPlayer(rows, player_name) ==
    MatchedAmong(rows, Unique(Column(rows, "Player")), player_name)

\* `if matched_player:` the rows of the matched player
RowsOfMatched(rows, matched_player) ==
    IF Falsy(matched_player) THEN <<>> ELSE RowsOfPlayer(rows, matched_player)

\* `if player_data.empty:` the fuzzy branch replaces an empty substring match
OrMatched(rows, player_name, direct) ==
    IF Len(direct) > 0 THEN direct
    ELSE RowsOfMatched(rows, MatchedPlayer(rows, player_name))

\* the rows the summary is computed from
PlayerData(rows, player_name) ==
    OrMatched(rows, player_name, SubstringRows(rows, player_name))

\* Series.mode().iloc[0]: the most frequent value, the smallest of them on a tie
Mode(s) ==
    LET count(v) == Cardinality({i \in 1..Len(s) : s[i] = v})
        top == {v \in Range(s) : \A w \in Range(s) : count(w) <= count(v)}
    IN  SortStrings(top)[1]

\* a missing value of a numeric column
NaN == 0

\* Series.astype(str) of Year values: a column with a missing value is a
\* column of floats
YearStrings(rows, years) ==
    LET floats == \E i \in 1..Len(rows) : rows[i].Year = NaN
    IN  {IF y = NaN THEN "nan" ELSE IF floats THEN ToString(y) \o ".0" ELSE ToString(y) :
            y \in years}

Reverse(s) == [i \in 1..Len(s) |-> s[Len(s) + 1 - i]]

Digits == "0123456789"

\* int(s) raises ValueError unless s is a string of digits
IsIntString(s) == Len(s) > 0 /\ \A i \in 1..Len(s) : Contains(Digits, CharAt(s, i))

RECURSIVE IntOfString(_)
IntOfString(s) ==
    IF Len(s) = 0 THEN 0
    ELSE 10 * IntOfString(SubSeq(s, 1, Len(s) - 1)) + Find(Digits, CharAt(s, Len(s)), 1) - 1

RecencyStatus(years_since_last) ==
    IF years_since_last = 0 THEN "ACTIVE - Current season"
    ELSE IF years_since_last = 1 THEN "RECENT - Last season"
    ELSE IF years_since_last <= 2 THEN "SEMI-RECENT - 2 years ago"
    ELSE "HISTORICAL - " \o ToString(years_since_last) \o " years ago"

\* recency_score in tenths
RecencyScore(years_since_last) ==
    IF years_since_last = 0 THEN 10
    ELSE IF years_since_last = 1 THEN 8
    ELSE IF years_since_last <= 2 THEN 6
    ELSE 3

\* the try block around int(current_year) - int(most_recent_year)
Recency(current_year, most_recent_year) ==
    IF IsIntString(current_year) /\ IsIntString(most_recent_year)
    THEN [status |-> RecencyStatus(IntOfString(current_year) - IntOfString(most_recent_year)),
          score |-> RecencyScore(IntOfString(current_year) - IntOfString(most_recent_year))]
    ELSE [status |-> "UNKNOWN", score |-> 5]

CountPhase(rows, phase) == Len(SelectSeq(rows, LAMBDA r : r.Entry_Phase = phase))

\* the summary dict (without avg_innings_duration, the phase_performance
\* table and the recent/historical split, which no operation below reads)
Summary(rows, metric_cols, player_data) ==
        IF Len(player_data) = 0 THEN NoneResult
        ELSE IF ~metric_cols THEN [kind |-> "raise", error |-> MissingColumnsError]
        ELSE
        LET n == Len(player_data)
            years_sorted ==
                Reverse(SortStrings(YearStrings(rows, Range(Column(player_data, "Year")))))
            most_recent_year == years_sorted[1]
            all_years == SortStrings(YearStrings(rows, Range(Column(rows, "Year"))))
            current_year == all_years[Len(all_years)]
            recency == Recency(current_year, most_recent_year)
        IN  [kind |-> "stats",
             name |-> Mode(Column(player_data, "Player")),
             total_matches |-> n,
             avg_entry_over |-> Round1(SumSeq(Column(player_data, "Entry_Over")), n),
             avg_strike_rate |-> Round1(SumSeq(Column(player_data, "Final_Strike_Rate")), n),
             avg_dot_pct |-> Round1(SumSeq(Column(player_data, "Dot_Pct")), n),
             avg_bnd_pct |-> Round1(SumSeq(Column(player_data, "Bnd_Pct")), n),
             total_runs |-> SumSeq(Column(player_data, "Runs")),
             avg_runs_per_match |-> Round1(SumSeq(Column(player_data, "Runs")), n),
             best_strike_rate |-> 10 * Max(Range(Column(player_data, "Final_Strike_Rate"))),
             teams |-> Unique(Column(player_data, "Team")),
             years |-> years_sorted,
             years_span |-> IF Len(years_sorted) > 1
                            THEN years_sorted[Len(years_sorted)] \o "-" \o years_sorted[1]
                            ELSE most_recent_year,
             most_recent_year |-> most_recent_year,
             recency_status |-> recency.status,
             recency_score |-> recency.score,
             phase_breakdown |-> [powerplay |-> CountPhase(player_data, "Powerplay"),
                                  middle |-> CountPhase(player_data, "Middle"),
                                  death |-> CountPhase(player_data, "Death")]]

get_player_stats(rows, metric_cols, player_name) ==
    Summary(rows, metric_cols, PlayerData(rows, player_name))

\* variant of the table after a lookup in which the lookup keeps its
\* selection as the table
TableNarrowedByLookup(rows, player_name) == SubstringRows(rows, player_name)

\* self.entry_points after get_player_stats: the lookup selects copies of
\* the rows and assigns nothing to the table
TableAfterLookup(rows, player_name) == rows

(***************************************************************************)
(* CricketDataAnalyzer.get_best_players_for_phase and                      *)
(* get_diverse_players_for_phase                                           *)
(***************************************************************************)
\* variant of the aggregation below over the entries of every phase
PlayerPerformanceAllPhases(rows, phase) ==
    LET players == SortStrings(Range(Column(rows, "Player")))
    IN  [i \in 1..Len(players) |->
            LET g == RowsOfPlayer(rows, players[i])
            IN  [Player |-> players[i],
                 Final_Strike_Rate |-> SumSeq(Column(g, "Final_Strike_Rate")),
                 Runs |-> SumSeq(Column(g, "Runs")),
                 Dot_Pct |-> SumSeq(Column(g, "Dot_Pct")),
                 Bnd_Pct |-> SumSeq(Column(g, "Bnd_Pct")),
                 Entry_Over |-> Len(g)]]

\* filtered_data.groupby('Player').agg(...): one row per player, in sorted
\* player order, the means kept as sums over the count
PlayerPerformance(rows, phase) ==
    LET filtered_data == SelectSeq(rows, LAMBDA r : r.Entry_Phase = TargetPhase(phase))
        players == SortStrings(Range(Column(filtered_data, "Player")))
    IN  [i \in 1..Len(players) |->
            LET g == RowsOfPlayer(filtered_data, players[i])
            IN  [Player |-> players[i],
                 Final_Strike_Rate |-> SumSeq(Column(g, "Final_Strike_Rate")),
                 Runs |-> SumSeq(Column(g, "Runs")),
                 Dot_Pct |-> SumSeq(Column(g, "Dot_Pct")),
                 Bnd_Pct |-> SumSeq(Column(g, "Bnd_Pct")),
                 Entry_Over |-> Len(g)]]

\* variant of the filter below that keeps every player
NoMinMatchesFilter(perf, min_matches) == perf

\* player_performance[player_performance['Entry_Over'] >= min_matches]
MinMatchesFilter(perf, min_matches) == SelectSeq(perf, LAMBDA r : r.Entry_Over >= min_matches)

\* the rows of s reordered so that row i comes before row j when Before(i, j)
OrderBy(s, Before(_, _)) ==
    [p \in 1..Len(s) |->
        s[CHOOSE i \in 1..Len(s) : Cardinality({j \in 1..Len(s) : Before(j, i)}) = p - 1]]

FirstN(s, n) == IF Len(s) <= n THEN s ELSE SubSeq(s, 1, n)

\* mean of column c of row a > mean of column c of row b
MeanGreater(a, b, c) == a[c] * b.Entry_Over > b[c] * a.Entry_Over

MeanEqual(a, b, c) == a[c] * b.Entry_Over = b[c] * a.Entry_Over

\* sort_values(c, ascending=False); equal means keep their order
SortDescending(perf, c) ==
    OrderBy(perf, LAMBDA i, j : \/ MeanGreater(perf[i], perf[j], c)
                                \/ (MeanEqual(perf[i], perf[j], c) /\ i < j))

\* nlargest(n, c), keep='first'
NLargest(perf, n, c) == FirstN(SortDescending(perf, c), n)

\* nsmallest(n, c), keep='first'
NSmallest(perf, n, c) ==
    FirstN(OrderBy(perf, LAMBDA i, j : \/ MeanGreater(perf[j], perf[i], c)
                                       \/ (MeanEqual(perf[i], perf[j], c) /\ i < j)), n)

\* nlargest(n, 'Entry_Over'): by the count itself
NLargestMatches(perf, n) ==
    FirstN(OrderBy(perf, LAMBDA i, j : \/ perf[i].Entry_Over > perf[j].Entry_Over
                                       \/ (perf[i].Entry_Over = perf[j].Entry_Over /\ i < j)), n)

\* the result dict of one player_performance row
BestPlayerEntry(row) ==
    [player |-> row.Player,
     avg_strike_rate |-> Round1(row.Final_Strike_Rate, row.Entry_Over),
     avg_runs |-> Round1(row.Runs, row.Entry_Over),
     avg_dot_pct |-> Round1(row.Dot_Pct, row.Entry_Over),
     avg_bnd_pct |-> Round1(row.Bnd_Pct, row.Entry_Over),
     matches |-> row.Entry_Over]

\* called with top_n, min_sr and max_sr left at None, as every caller does
get_best_players_for_phase(rows, metric_cols, phase, min_matches) ==
    IF ~metric_cols THEN [kind |-> "raise", error |-> MissingColumnsError]
    ELSE LET player_performance ==
                 SortDescending(MinMatchesFilter(PlayerPerformance(rows, phase), min_matches),
                                "Final_Strike_Rate")
         IN  [kind |-> "list",
              items |-> [i \in 1..Len(player_performance) |-> BestPlayerEntry(player_performance[i])]]

\* default of the min_matches parameter
DefaultMinMatches == 3

\* the cap of every category of the diverse pool
DiverseCap == 15

BalancedMinSR == 120

BalancedMaxSR == 150

\* _format_player_list
format_player_list(perf, description) ==
    [i \in 1..Len(perf) |->
        [player |-> perf[i].Player,
         avg_strike_rate |-> Round1(perf[i].Final_Strike_Rate, perf[i].Entry_Over),
         avg_runs |-> Round1(perf[i].Runs, perf[i].Entry_Over),
         matches |-> perf[i].Entry_Over,
         dot_pct |-> Round1(perf[i].Dot_Pct, perf[i].Entry_Over),
         bnd_pct |-> Round1(perf[i].Bnd_Pct, perf[i].Entry_Over),
         description |-> description]]

\* the categories dict, as the sequence of its (category, players) items
get_diverse_players_for_phase(rows, metric_cols, phase, min_matches) ==
    IF ~metric_cols THEN [kind |-> "raise", error |-> MissingColumnsError]
    ELSE LET perf == MinMatchesFilter(PlayerPerformance(rows, phase), min_matches)
             band == SelectSeq(perf, LAMBDA r :
                         /\ r.Final_Strike_Rate >= BalancedMinSR * r.Entry_Over
                         /\ r.Final_Strike_Rate <= BalancedMaxSR * r.Entry_Over)
         IN  [kind |-> "categories",
              categories |->
                << [category |-> "aggressive_strikers",
                    players |-> format_player_list(NLargest(perf, DiverseCap, "Final_Strike_Rate"),
                                                   "High strike rate")],
                   [category |-> "consistent_scorers",
                    players |-> format_player_list(NLargest(perf, DiverseCap, "Runs"),
                                                   "High average runs")],
                   [category |-> "boundary_hitters",
                    players |-> format_player_list(NLargest(perf, DiverseCap, "Bnd_Pct"),
                                                   "High boundary %")],
                   [category |-> "strike_rotators",
                    players |-> format_player_list(NSmallest(perf, DiverseCap, "Dot_Pct"),
                                                   "Low dot %, good rotation")],
                   [category |-> "experienced",
                    players |-> format_player_list(NLargestMatches(perf, DiverseCap),
                                                   "Most matches played")],
                   [category |-> "balanced",
                    players |-> format_player_list(NLargest(band, DiverseCap, "Runs"),
                                                   "Balanced SR 120-150")] >>]

\* the mean of a column rounded to one decimal; the mean of no rows is NaN
MeanOrNaN(rows, c) ==
    IF Len(rows) = 0 THEN NaN ELSE Round1(SumSeq(Column(rows, c)), Len(rows))

\* get_phase_summary: the two optional columns are read with
\* .get(column, pd.Series([0])), whose mean is 0
get_phase_summary(rows, metric_cols, phase) ==
    LET filtered_data == SelectSeq(rows, LAMBDA r : r.Entry_Phase = TargetPhase(phase))
    IN  [kind |-> "summary",
         phase |-> TargetPhase(phase),
         total_entries |-> Len(filtered_data),
         unique_players |-> Cardinality(Range(Column(filtered_data, "Player"))),
         avg_strike_rate |-> MeanOrNaN(filtered_data, "Final_Strike_Rate"),
         avg_runs |-> MeanOrNaN(filtered_data, "Runs"),
         avg_dot_pct |-> IF metric_cols THEN MeanOrNaN(filtered_data, "Dot_Pct") ELSE 0,
         avg_bnd_pct |-> IF metric_cols THEN MeanOrNaN(filtered_data, "Bnd_Pct") ELSE 0]

(***************************************************************************)
(* ReActCricketAgent._execute_action                                       *)
(* A returned string is [kind |-> "text", text].                           *)
(***************************************************************************)
BowlingTypeNote ==
    "IMPORTANT: Bowling type data (spin/pace) is not available in the dataset. "
    \o "Analysis is based on entry phase (Powerplay/Middle/Death) only."

\* action.split(':', 1)
\* an empty dict
EmptyDict == [kind |-> "dict", items |-> <<>>]

\* the length of top_performers
TopPerformersCap == 5

\* get_team_strategy
get_team_strategy(rows, team_name) ==
    LET team_data == SelectSeq(rows, LAMBDA r : Contains(Lower(r.Team), Lower(team_name)))
        phases == Range(Column(team_data, "Entry_Phase"))
        ranked == OrderBy(team_data, LAMBDA i, j :
                      \/ team_data[i].Final_Strike_Rate > team_data[j].Final_Strike_Rate
                      \/ /\ team_data[i].Final_Strike_Rate = team_data[j].Final_Strike_Rate
                         /\ i < j)
    IN  IF Len(team_data) = 0 THEN EmptyDict
        ELSE [kind |-> "strategy",
              team |-> team_data[1].Team,
              total_entries |-> Len(team_data),
              avg_entry_over |-> Round1(SumSeq(Column(team_data, "Entry_Over")), Len(team_data)),
              phase_distribution |->
                  [p \in phases |-> Len(SelectSeq(team_data, LAMBDA r : r.Entry_Phase = p))],
              top_performers |->
                  [i \in 1..Len(FirstN(ranked, TopPerformersCap)) |->
                      [Player |-> ranked[i].Player,
                       Final_Strike_Rate |-> ranked[i].Final_Strike_Rate,
                       Entry_Over |-> ranked[i].Entry_Over]]]

\* the dict compare_players builds from the summaries of its names: the
\* summaries of the names that resolve, keyed by the name of the summary (a
\* later summary of the same name replaces an earlier)
Comparison(stats) ==
    LET raised == {i \in 1..Len(stats) : stats[i].kind = "raise"}
        found == SelectSeq(stats, LAMBDA r : r.kind = "stats")
        keys == Unique([i \in 1..Len(found) |-> found[i].name])
    IN  IF raised # {} THEN stats[Min(raised)]
        ELSE [kind |-> "dict",
              items |-> [k \in 1..Len(keys) |->
                            [key |-> keys[k],
                             value |-> found[Max({i \in 1..Len(found) : found[i].name = keys[k]})]]]]

\* compare_players
compare_players(rows, metric_cols, player_names) ==
    Comparison([i \in 1..Len(player_names) |->
                   get_player_stats(rows, metric_cols, player_names[i])])

ActionType(action) == SubSeq(action, 1, Find(action, ":", 1) - 1)

ActionParam(action) == SubSeq(action, Find(action, ":", 1) + 1, Len(action))

\* `if result`: None, an empty list and an empty string are false
Truthy(result) ==
    CASE result.kind = "none" -> FALSE
      [] result.kind = "list" -> Len(result.items) > 0
      [] result.kind = "dict" -> Len(result.items) > 0
      [] result.kind = "text" -> result.text # ""
      [] OTHER -> TRUE

RECURSIVE RetryNameParts(_, _, _, _, _)
\* `if result: break` on the result of one name part
RetryAfter(rows, metric_cols, parts, i, result) ==
    IF result.kind = "raise" \/ Truthy(result) THEN result
    ELSE RetryNameParts(rows, metric_cols, parts, i + 1, result)

\* the loop over param.split() after a first lookup returned None
RetryNameParts(rows, metric_cols, parts, i, result) ==
    IF i > Len(parts) THEN result
    ELSE RetryAfter(rows, metric_cols, parts, i, get_player_stats(rows, metric_cols, parts[i]))

\* `if result is None:` the retry by name parts
OrRetry(rows, metric_cols, param, result) ==
    IF result.kind = "none"
    THEN RetryNameParts(rows, metric_cols, SplitWords(param), 1, result)
    ELSE result

\* the names the two branches with player lookups hand to get_player_stats
\* first: the parameter, or for compare_players its parts `param.split(',')`
LookedUp(action_type, param) ==
    IF action_type = "compare_players" THEN Split(param, ",") ELSE <<param>>

\* the branches get_player_stats (with its retry by name parts) and
\* compare_players, given the summaries of the names looked up first
PlayerLookup(rows, metric_cols, action_type, param, stats) ==
    IF action_type = "compare_players" THEN Comparison(stats)
    ELSE OrRetry(rows, metric_cols, param, stats[1])

\* the body of the try block: a result, or [kind |-> "raise"]
ExecuteBody(rows, metric_cols, action) ==
    IF ~Contains(action, ":") THEN NoneResult
    ELSE LET action_type == ActionType(action)
             param == ActionParam(action)
         IN  CASE action_type = "note" ->
                      IF param = "bowling_type_unavailable"
                      THEN [kind |-> "text", text |-> BowlingTypeNote]
                      ELSE NoneResult
               [] action_type \in {"get_player_stats", "compare_players"} ->
                      PlayerLookup(rows, metric_cols, action_type, param,
                                   [i \in 1..Len(LookedUp(action_type, param)) |->
                                       get_player_stats(rows, metric_cols,
                                                        LookedUp(action_type, param)[i])])
               [] action_type = "get_best_players_for_phase" ->
                      get_best_players_for_phase(rows, metric_cols, param, DefaultMinMatches)
               [] action_type = "get_diverse_players_for_phase" ->
                      get_diverse_players_for_phase(rows, metric_cols, param, DefaultMinMatches)
               [] action_type = "get_team_strategy" ->
                      get_team_strategy(rows, param)
               [] OTHER -> NoneResult

\* except Exception as e: return f"Error executing {action}: {str(e)}"
Caught(action, r) ==
    IF r.kind = "raise"
    THEN [kind |-> "text", text |-> "Error executing " \o action \o ": " \o r.error]
    ELSE r

execute_action(rows, metric_cols, action) ==
    Caught(action, ExecuteBody(rows, metric_cols, action))

(***************************************************************************)
(* Observation Builder: ReActCricketAgent._analyze_results                 *)
(* results is the dict action_results as the sequence of its items.        *)
(***************************************************************************)
\* (the warning sign that opens the first line is not ASCII and is left out)
BowlingTypeNotice(entities) ==
    NL \o "DATA LIMITATION NOTICE:" \o NL
    \o "The question mentions bowling type (" \o Join(", ", entities.bowling_types)
    \o "), but the dataset does not contain bowling type information." \o NL
    \o "Analysis is based on ENTRY PHASE (Powerplay/Middle/Death) only, not specific bowling matchups."
    \o NL

\* the PLAYER DATA block (the lines of the fields the summary above carries)
PlayerObservation(result) ==
    NL \o "PLAYER DATA FOR " \o Upper(result.name) \o ":" \o NL
    \o "- Total Matches: " \o ToString(result.total_matches) \o NL
    \o "- Years Active: " \o result.years_span \o " (Most Recent: " \o result.most_recent_year \o ")" \o NL
    \o "- Recency Status: " \o result.recency_status
    \o " (Score: " \o FormatTenths(result.recency_score) \o ")" \o NL
    \o "- Average Entry Over: " \o FormatTenths(result.avg_entry_over) \o NL
    \o "- Average Strike Rate: " \o FormatTenths(result.avg_strike_rate) \o NL
    \o "- Average Dot Ball %: " \o FormatTenths(result.avg_dot_pct) \o "%" \o NL
    \o "- Average Boundary %: " \o FormatTenths(result.avg_bnd_pct) \o "%" \o NL
    \o "- Total Runs: " \o ToString(result.total_runs) \o NL
    \o "- Avg Runs per Match: " \o FormatTenths(result.avg_runs_per_match) \o NL
    \o "- Best Strike Rate: " \o FormatTenths(result.best_strike_rate) \o NL
    \o "- Phase Breakdown: Powerplay=" \o ToString(result.phase_breakdown.powerplay)
    \o ", Middle=" \o ToString(result.phase_breakdown.middle)
    \o ", Death=" \o ToString(result.phase_breakdown.death) \o NL

\* the TOP PERFORMERS block
PhaseObservation(phase, items) ==
    NL \o "TOP PERFORMERS FOR " \o Upper(phase) \o " PHASE:" \o NL
    \o Join(NL, [i \in 1..Len(items) |->
                    "  " \o ToString(i) \o ". " \o items[i].player
                    \o " (SR: " \o FormatTenths(items[i].avg_strike_rate)
                    \o ", " \o ToString(items[i].matches) \o " matches, Avg Runs: "
                    \o FormatTenths(items[i].avg_runs) \o ")"])
    \o NL \o NL \o "Total players analyzed: " \o ToString(Len(items)) \o NL

\* category.replace('_', ' ').title() of the six category keys
CategoryTitle(category) ==
    CASE category = "aggressive_strikers" -> "Aggressive Strikers"
      [] category = "consistent_scorers" -> "Consistent Scorers"
      [] category = "boundary_hitters" -> "Boundary Hitters"
      [] category = "strike_rotators" -> "Strike Rotators"
      [] category = "experienced" -> "Experienced"
      [] category = "balanced" -> "Balanced"

DiverseObservation(phase, categories) ==
    NL \o "DIVERSE PLAYER POOL FOR " \o Upper(phase) \o " PHASE:" \o NL
    \o "============================================================" \o NL
    \o Join("", [c \in 1..Len(categories) |->
            NL \o CategoryTitle(categories[c].category) \o ":" \o NL
            \o Join("", [i \in 1..Len(categories[c].players) |->
                   LET p == categories[c].players[i]
                   IN  "  " \o ToString(i) \o ". " \o p.player
                       \o " - SR: " \o FormatTenths(p.avg_strike_rate)
                       \o ", Runs: " \o FormatTenths(p.avg_runs)
                       \o ", Matches: " \o ToString(p.matches)
                       \o ", Dot%: " \o FormatTenths(p.dot_pct)
                       \o ", Bnd%: " \o FormatTenths(p.bnd_pct) \o NL])])
    \o NL \o "Total categories: " \o ToString(Len(categories)) \o NL
    \o "Note: Players may appear in multiple categories based on their strengths" \o NL

\* one pass of the loop body: the observations it appends, or "raise" when it
\* indexes or iterates a result of the wrong type (a returned error string)
ObserveItem(action, result) ==
    IF result.kind = "none" THEN [kind |-> "obs", obs |-> <<>>]
    ELSE IF StartsWith(action, "note:") THEN [kind |-> "obs", obs |-> <<result.text>>]
    ELSE LET action_type == Split(action, ":")[1]
         IN  CASE action_type = "get_player_stats" /\ Truthy(result) ->
                      IF result.kind = "stats"
                      THEN [kind |-> "obs", obs |-> <<PlayerObservation(result)>>]
                      ELSE [kind |-> "raise", error |-> "string indices must be integers"]
               [] action_type = "get_best_players_for_phase" /\ Truthy(result) ->
                      IF result.kind = "list"
                      THEN [kind |-> "obs", obs |-> <<PhaseObservation(Split(action, ":")[2], result.items)>>]
                      ELSE [kind |-> "raise", error |-> "string indices must be integers"]
               [] action_type = "get_diverse_players_for_phase" /\ Truthy(result) ->
                      IF result.kind = "categories"
                      THEN [kind |-> "obs", obs |-> <<DiverseObservation(Split(action, ":")[2], result.categories)>>]
                      ELSE [kind |-> "raise", error |-> "'str' object has no attribute 'items'"]
               [] OTHER -> [kind |-> "obs", obs |-> <<>>]

RECURSIVE ObserveAll(_, _)
ObserveAll(results, i) ==
    IF i > Len(results) THEN [kind |-> "obs", obs |-> <<>>]
    ELSE LET o == ObserveItem(results[i].action, results[i].result)
         IN  IF o.kind = "raise" THEN o
             ELSE LET rest == ObserveAll(results, i + 1)
                  IN  IF rest.kind = "raise" THEN rest
                      ELSE [kind |-> "obs", obs |-> o.obs \o rest.obs]

NoData == "No specific data retrieved"

\* [kind |-> "text", text] for the returned observation text, "raise" otherwise
analyze_results(results, entities) ==
    LET notice == IF Len(entities.bowling_types) > 0
                  THEN <<BowlingTypeNotice(entities)>> ELSE <<>>
        loop == ObserveAll(results, 1)
    IN  IF loop.kind = "raise" THEN loop
        ELSE LET observations == notice \o loop.obs
             IN  [kind |-> "text",
                  text |-> IF Len(observations) > 0 THEN Join(NL, observations) ELSE NoData]

(***************************************************************************)
(* Response Generator: ReActCricketAgent._generate_response                *)
(* The language model is a black box: each call either raises or returns   *)
(* one of the replies below, chosen by the environment.                    *)
(***************************************************************************)
RECURSIVE SortedAsc(_)
SortedAsc(S) == IF S = {} THEN <<>> ELSE <<Min(S)>> \o SortedAsc(S \ {Min(S)})

\* [line for line in text.split('\n') if marker in line]: the lines are found
\* from the occurrences of the marker, each line taken once, in text order
LinesContaining(text, marker) ==
    LET marks == {i \in 1..(Len(text) - Len(marker) + 1) :
                     SubSeq(text, i, i + Len(marker) - 1) = marker}
        LineStart(i) == Max({j \in 1..(i - 1) : SubSeq(text, j, j) = NL} \cup {0}) + 1
        LineEnd(i) == Min({j \in i..Len(text) : SubSeq(text, j, j) = NL} \cup {Len(text) + 1}) - 1
        starts == SortedAsc({LineStart(i) : i \in marks})
    IN  [k \in 1..Len(starts) |-> SubSeq(text, starts[k], LineEnd(starts[k]))]

\* the names after "PLAYER DATA FOR" on the lines of the observation text
PlayersWithData(observations) ==
    LET sections == LinesContaining(observations, "PLAYER DATA FOR")
    IN  [i \in 1..Len(sections) |->
            Strip(Split(Split(sections[i], "PLAYER DATA FOR")[2], ":")[1])]

FallbackHeading == "Based on the data analysis:"

\* variant of the except branch below that leaves the observations out
FallbackAnswerWithoutData(observations, error) ==
    FallbackHeading \o NL \o NL
    \o "(Note: Full AI analysis unavailable due to: " \o error \o ")"

\* the answer built in the except branch
FallbackAnswer(observations, error) ==
    FallbackHeading \o NL \o NL \o observations \o NL \o NL
    \o "Strategic Recommendation: The data shows specific performance metrics that should guide "
    \o "deployment decisions. Consider the player's actual strike rate, entry patterns, and match "
    \o "situations where their statistics indicate effectiveness." \o NL \o NL
    \o "(Note: Full AI analysis unavailable due to: " \o error \o ")"

ModelBehaviours == {"raise", "plain", "names", "echo"}

ModelError == "429 quota exceeded"

\* response.text of a call that returns: a reply that names no player, one
\* that names the players of the prompt, one that echoes the observations
ModelReply(behaviour, observations, players) ==
    CASE behaviour = "plain" -> "Prefer batters with a high strike rate in this phase."
      [] behaviour = "names" -> "Use " \o Join(" and ", players) \o " as the numbers suggest."
      [] behaviour = "echo" -> FallbackHeading \o NL \o NL \o observations \o NL \o NL
                               \o "Strategic Recommendation: follow the data."

\* `not any(player.lower() in response_lower for player in players_with_data)`
NoPlayerMentioned(response_lower, players_with_data) ==
    ~\E i \in 1..Len(players_with_data) : Contains(response_lower, Lower(players_with_data[i]))

PlayerPrefix(players_with_data) == "Analyzing " \o Join(", ", players_with_data) \o ":" \o NL \o NL

\* the text the final check returns; response_lower is the lower-cased FIRST reply
FinalCheck(response_text, response_lower, players_with_data) ==
    IF NoPlayerMentioned(response_lower, players_with_data)
    THEN PlayerPrefix(players_with_data) \o response_text
    ELSE response_text

\* what a call of generate_content that raised leaves in place of a reply
Raised == "<raised>"

\* variant of _generate_response that calls the model again after a call
\* that raised
GenerateWithRetry(observations, first, second) ==
    LET players_with_data == PlayersWithData(observations)
    IN  IF first = "raise" /\ second = "raise"
        THEN [text |-> FallbackAnswer(observations, ModelError), llm_calls |-> 2,
              model_raised |-> TRUE, replies |-> <<Raised, Raised>>]
        ELSE LET reply == ModelReply(IF first = "raise" THEN second ELSE first,
                                     observations, players_with_data)
             IN  [text |-> reply, llm_calls |-> IF first = "raise" THEN 2 ELSE 1,
                  model_raised |-> first = "raise",
                  replies |-> IF first = "raise" THEN <<Raised, reply>> ELSE <<reply>>]

\* first and second are the model's behaviour on the first call and on the
\* simplified re-prompt; the result carries the number of calls made,
\* whether a call raised and what each call gave
generate_response(observations, first, second) ==
    LET players_with_data == PlayersWithData(observations)
    IN  IF first = "raise"
        THEN [text |-> FallbackAnswer(observations, ModelError), llm_calls |-> 1,
              model_raised |-> TRUE, replies |-> <<Raised>>]
        ELSE LET response_text == ModelReply(first, observations, players_with_data)
                 response_lower == Lower(response_text)
             IN  IF Len(players_with_data) = 0
                 THEN [text |-> response_text, llm_calls |-> 1, model_raised |-> FALSE,
                       replies |-> <<response_text>>]
                 ELSE IF StartsWith(response_text, FallbackHeading)
                         /\ Contains(response_text, observations)
                 THEN IF second = "raise"
                      THEN [text |-> FallbackAnswer(observations, ModelError), llm_calls |-> 2,
                            model_raised |-> TRUE, replies |-> <<response_text, Raised>>]
                      ELSE [text |-> FinalCheck(ModelReply(second, observations, players_with_data),
                                                response_lower, players_with_data),
                            llm_calls |-> 2, model_raised |-> FALSE,
                            replies |-> <<response_text,
                                          ModelReply(second, observations, players_with_data)>>]
                 ELSE [text |-> FinalCheck(response_text, response_lower, players_with_data),
                       llm_calls |-> 1, model_raised |-> FALSE, replies |-> <<response_text>>]

(***************************************************************************)
(* ReActCricketAgent.answer_question                                       *)
(***************************************************************************)
\* action_results: one item per distinct action, in planning order
ExecuteAll(rows, metric_cols, planned_actions) ==
    LET keys == Unique(planned_actions)
    IN  [i \in 1..Len(keys) |->
            [action |-> keys[i], result |-> execute_action(rows, metric_cols, keys[i])]]

\* step 3: observations = self._analyze_results(action_results, entities)
Observe(entities, planned_actions, action_results) ==
    [entities |-> entities,
     planned_actions |-> planned_actions,
     action_results |-> action_results,
     observations |-> analyze_results(action_results, entities)]

\* step 2: the loop `action_results[action] = self._execute_action(action)`
Act(rows, metric_cols, entities, planned_actions) ==
    Observe(entities, planned_actions, ExecuteAll(rows, metric_cols, planned_actions))

\* step 1: planned_actions = self._reason_and_plan(question, entities)
Plan(rows, metric_cols, q, entities) ==
    Act(rows, metric_cols, entities, reason_and_plan(q, entities))

\* steps 1 to 3 of answer_question for question q: extraction, planning,
\* the lookups and the observation text
Reason(rows, metric_cols, q) ==
    Plan(rows, metric_cols, q, extract_entities(q))

\* variant of the early return below that is never taken
NeverShortCircuits(validation_result) == FALSE

\* `if not validation_result['is_valid']: return validation_result['message']`
ShortCircuits(validation_result) == ~validation_result.is_valid

\* the turn appended to conversation_history
Turn(q, r, final_answer) ==
    [question |-> q,
     entities |-> r.entities,
     actions |-> r.planned_actions,
     results |-> r.action_results,
     answer |-> final_answer]

\* answer_question(q) once steps 1 to 3 gave r.  The result is the record of
\* the call (what it returned or that it raised, the steps it ran, the
\* observation text and the model calls it made) and the turns it appends.
Respond(validation_result, r, q, first, second) ==
    IF ShortCircuits(validation_result) THEN
        [call |-> [op |-> "answer_question", outcome |-> "returned",
                   value |-> validation_result.message,
                   steps |-> {"validate"}, observations |-> None,
                   llm_calls |-> 0, model_raised |-> FALSE, replies |-> <<>>],
         turns |-> <<>>]
    ELSE IF r.observations.kind = "raise" THEN
        [call |-> [op |-> "answer_question", outcome |-> "raised",
                   value |-> r.observations.error,
                   steps |-> {"validate", "extract", "plan", "execute", "observe"},
                   observations |-> None,
                   llm_calls |-> 0, model_raised |-> FALSE, replies |-> <<>>],
         turns |-> <<>>]
    ELSE LET g == generate_response(r.observations.text, first, second)
         IN  [call |-> [op |-> "answer_question", outcome |-> "returned",
                        value |-> g.text,
                        steps |-> {"validate", "extract", "plan", "execute", "observe", "respond"},
                        observations |-> r.observations.text,
                        llm_calls |-> g.llm_calls, model_raised |-> g.model_raised,
                        replies |-> g.replies],
              turns |-> <<Turn(q, r, g.text)>>]

\* steps 1 to 3 are not run for a question the validator rejects
Skipped == [observations |-> [kind |-> "none"]]

\* every way answer_question(q) can end over the table, one for each
\* behaviour of the model on the first call and on the re-prompt
answer_question(rows, metric_cols, q) ==
    LET validation_result == CHOOSE v \in {validate_question(q)} : TRUE
        r == CHOOSE x \in {IF ShortCircuits(validation_result)
                           THEN Skipped ELSE Reason(rows, metric_cols, q)} : TRUE
    IN  {Respond(validation_result, r, q, first, second) :
            first \in ModelBehaviours, second \in ModelBehaviours}

(***************************************************************************)
(* From deliveries to entry points: CricketDataAnalyzer.__init__ with      *)
(* _calculate_entry_points, and the two processing scripts.  A delivery is *)
(* [Player, Match, Over]: the columns the entry over, the exit over and    *)
(* the entry phase are computed from.                                      *)
(***************************************************************************)
\* the last over of an innings
LastOver == 20

\* `if 'Entry_Over' in df.columns and 'Final_Strike_Rate' in df.columns`
IsProcessed(table) ==
    Len(table) > 0 /\ {"Entry_Over", "Final_Strike_Rate"} \subseteq DOMAIN table[1]

RECURSIVE Flatten(_)
Flatten(ss) == IF Len(ss) = 0 THEN <<>> ELSE Head(ss) \o Flatten(Tail(ss))

\* the keys of groupby([player, match]), in sorted order
GroupKeys(balls) ==
    LET players == SortStrings(Range(Column(balls, "Player")))
    IN  Flatten([i \in 1..Len(players) |->
            LET matches == SortStrings(Range(Column(RowsOfPlayer(balls, players[i]), "Match")))
            IN  [j \in 1..Len(matches) |-> <<players[i], matches[j]>>]])

\* the deliveries of one group
Group(balls, key) == SelectSeq(balls, LAMBDA b : b.Player = key[1] /\ b.Match = key[2])

\* the raw branch of _calculate_entry_points: one row per player and match
EntryPointOfGroup(key, overs) ==
    [Player |-> key[1], Match |-> key[2],
     Entry_Over |-> Min(overs), Exit_Over |-> Max(overs),
     Overs_Played |-> Cardinality(overs),
     Innings_Duration |-> Max(overs) - Min(overs) + 1,
     Entry_Phase |-> EntryPhase(Min(overs))]

calculate_entry_points(table) ==
    IF IsProcessed(table) THEN table
    ELSE LET keys == GroupKeys(table)
         IN  [k \in 1..Len(keys) |->
                 EntryPointOfGroup(keys[k], Range(Column(Group(table, keys[k]), "Over")))]

\* process_ballbyball_data.py: the entry and the exit row of a group sorted
\* by over, the exit over clipped to the last over
BallByBallEntryPoint(key, overs) ==
    [Player |-> key[1], Match |-> key[2],
     Entry_Over |-> Min(overs),
     Exit_Over |-> Min({Max(overs), LastOver}),
     Innings_Duration |-> Min({Max(overs), LastOver}) - Min(overs) + 1,
     Entry_Phase |-> BallByBallEntryPhase(Min(overs))]

\* the grouping of process_ballbyball_to_entry_points without the filter of
\* its last lines
UnfilteredEntryPoints(balls) ==
    LET keys == GroupKeys(balls)
    IN  [k \in 1..Len(keys) |->
            BallByBallEntryPoint(keys[k], Range(Column(Group(balls, keys[k]), "Over")))]

\* process_ballbyball_to_entry_points, with its filter of invalid entries
process_ballbyball_to_entry_points(balls) ==
    LET keys == GroupKeys(balls)
        all == [k \in 1..Len(keys) |->
                   BallByBallEntryPoint(keys[k], Range(Column(Group(balls, keys[k]), "Over")))]
    IN  SelectSeq(all, LAMBDA r : r.Entry_Over > 0 /\ r.Entry_Over <= LastOver)

\* df.sort_values(['Match', 'Batsman', 'Overs'])
SortDeliveries(balls) ==
    OrderBy(balls, LAMBDA i, j :
        \/ StrLess(balls[i].Match, balls[j].Match)
        \/ /\ balls[i].Match = balls[j].Match
           /\ \/ StrLess(balls[i].Player, balls[j].Player)
              \/ /\ balls[i].Player = balls[j].Player
                 /\ \/ balls[i].Over < balls[j].Over
                    \/ (balls[i].Over = balls[j].Over /\ i < j))

\* process_ball_position_analysis: every delivery with the entry over of its
\* batsman in the match and the phase of that entry over
process_ball_position_analysis(unsorted) ==
    LET balls == SortDeliveries(unsorted)
    IN
    [i \in 1..Len(balls) |->
        LET overs == Range(Column(Group(balls, <<balls[i].Player, balls[i].Match>>), "Over"))
        IN  [Player |-> balls[i].Player, Match |-> balls[i].Match, Over |-> balls[i].Over,
             Entry_Over |-> Min(overs),
             Entry_Phase |-> categorize_entry_phase(Min(overs))]]

(***************************************************************************)
(* The session: one agent over a loaded table, questions asked one at a    *)
(* time.  question is the question of the last call, call its record.      *)
(***************************************************************************)
EntryRow(player, team, year, over, strike_rate, runs) ==
    [Player |-> player, Team |-> team, Year |-> year,
     Entry_Over |-> over, Entry_Phase |-> EntryPhase(over),
     Runs |-> runs, Final_Strike_Rate |-> strike_rate,
     Dot_Pct |-> 30, Bnd_Pct |-> 15]

SessionRows ==
    << EntryRow("Virat Kohli", "RCB", 2024, 2, 130, 40),
       EntryRow("Virat Kohli", "RCB", 2025, 3, 141, 55),
       EntryRow("Hardik Pandya", "MI", 2023, 16, 180, 20),
       EntryRow("Krunal Pandya", "LSG", 2025, 10, 120, 15),
       EntryRow("Hardik Pandya", "MI", 2022, 17, 160, 22),
       EntryRow("Hardik Pandya", "MI", 2022, 18, 100, 2),
       EntryRow("Virat Kohli", "RCB", 2025, 1, 100, 5) >>

SessionQuestions ==
    { "When should I play Hardik Pandya against spin?",
      "How does Virat Kohli perform in the powerplay?",
      "Who are the best death over batsmen?",
      "What about David Warner?",
      "Best batting order for defending with Kohli" }

Idle == [op |-> "idle"]

Init ==
    /\ df = SessionRows
    /\ entry_points = calculate_entry_points(df)
    /\ has_metric_cols \in BOOLEAN
    /\ conversation_history = <<>>
    /\ question = ""
    /\ call = Idle

AnswerQuestion(q) ==
    /\ Len(conversation_history) < MaxHistory
    /\ \E out \in answer_question(entry_points, has_metric_cols, q) :
           /\ call' = out.call
           /\ conversation_history' = conversation_history \o out.turns
    /\ question' = q
    /\ UNCHANGED <<df, entry_points, has_metric_cols>>

Next == \E q \in SessionQuestions : AnswerQuestion(q)

Spec == Init /\ [][Next]_vars

(***************************************************************************)
(* The question pipeline: _validate_question, _extract_entities and        *)
(* _reason_and_plan applied to a question.  Questions are the questions of *)
(* the validation test and phrases of up to MaxWords vocabulary words.     *)
(***************************************************************************)
Vocabulary ==
    { "Virat Kohli", "Ashwin", "powerplay", "death", "spin", "against", "CSK",
      "venue", "compare", "best players", "batting order", "strike rate", "hello" }

\* phase names, player names, comparison phrasing, batting metrics
AcceptedVocabulary ==
    { "Virat Kohli", "Ashwin", "powerplay", "death", "compare", "strike rate" }

RECURSIVE Phrases(_, _)
Phrases(words, n) ==
    IF n <= 1 THEN words
    ELSE LET shorter == Phrases(words, n - 1)
         IN  shorter \cup {p \o " " \o w : p \in shorter, w \in words}

RejectedTestQuestions ==
    { "Which players perform best against spin?",
      "How does Virat Kohli perform against pace bowling?",
      "Who is the best bowler in death overs?",
      "What is the economy rate of Bumrah?",
      "Which team wins most matches at Wankhede?",
      "How does the pitch affect batting?" }

AcceptedTestQuestions ==
    { "Which players perform best in middle overs?",
      "How does Virat Kohli perform in the powerplay?",
      "Who are the best death-overs finishers?",
      "What is Hardik Pandya's strike rate?",
      "Which MI players have the highest boundary percentage?",
      "Compare Rohit Sharma vs Virat Kohli" }

\* the accepted question about a player in a phase, asked of other players
PlayerQuestions ==
    {"How does " \o p \o " perform in the powerplay?" : p \in {"Hardik Pandya", "Ashwin"}}

\* the rejected question about an economy rate, asked of a bowler named by
\* role instead of by name
EconomyQuestion == "What is the economy rate of Test Bowler?"

\* a question about a bowler that names a phase and no team
BowlerInPhaseQuestion == "Who bats best against Bumrah in the middle overs?"

Questions ==
    Phrases(Vocabulary, MaxWords) \cup RejectedTestQuestions \cup AcceptedTestQuestions
        \cup PlayerQuestions \cup {EconomyQuestion, BowlerInPhaseQuestion}

QuestionInit ==
    /\ df = SessionRows
    /\ entry_points = calculate_entry_points(df)
    /\ has_metric_cols = TRUE
    /\ conversation_history = <<>>
    /\ question \in Questions
    /\ call = Idle

ValidateQuestion ==
    /\ call = Idle
    /\ call' = [op |-> "_validate_question", result |-> validate_question(question)]
    /\ UNCHANGED <<df, entry_points, has_metric_cols, conversation_history, question>>

ExtractEntities ==
    /\ call = Idle
    /\ call' = [op |-> "_extract_entities", result |-> extract_entities(question)]
    /\ UNCHANGED <<df, entry_points, has_metric_cols, conversation_history, question>>

ReasonAndPlan ==
    /\ call = Idle
    /\ \E entities \in {extract_entities(question)} :
           call' = [op |-> "_reason_and_plan", entities |-> entities,
                    result |-> reason_and_plan(question, entities)]
    /\ UNCHANGED <<df, entry_points, has_metric_cols, conversation_history, question>>

QuestionNext == ValidateQuestion \/ ExtractEntities \/ ReasonAndPlan

QuestionSpec == QuestionInit /\ [][QuestionNext]_vars

(***************************************************************************)
(* The analyzer over a loaded table: every table of up to MaxRows entry    *)
(* points of two players, entered in the powerplay or at the death.        *)
(***************************************************************************)
TablePlayers == {"Test P", "V Kohli"}

TableOvers == {3, 17}

TableStrikeRates == {100, 150, 200}

TableRows ==
    {EntryRow(p, "RCB", 2024, o, sr, 10) :
        p \in TablePlayers, o \in TableOvers, sr \in TableStrikeRates}

RECURSIVE Tables(_)
Tables(n) ==
    IF n = 0 THEN {<<>>}
    ELSE LET shorter == Tables(n - 1)
         IN  shorter \cup {Append(t, r) : t \in shorter, r \in TableRows}

AnalyzerInit ==
    /\ df \in Tables(MaxRows)
    /\ entry_points = calculate_entry_points(df)
    /\ has_metric_cols = TRUE
    /\ conversation_history = <<>>
    /\ question = ""
    /\ call = Idle

GetBestPlayersForPhase(phase, min_matches) ==
    /\ call = Idle
    /\ call' = [op |-> "get_best_players_for_phase", phase |-> phase,
                min_matches |-> min_matches,
                result |-> get_best_players_for_phase(entry_points, has_metric_cols,
                                                      phase, min_matches)]
    /\ UNCHANGED <<df, entry_points, has_metric_cols, conversation_history, question>>

AnalyzerNext ==
    \E phase \in {"powerplay", "death"}, min_matches \in 1..MaxRows :
        GetBestPlayersForPhase(phase, min_matches)

AnalyzerSpec == AnalyzerInit /\ [][AnalyzerNext]_vars

(***************************************************************************)
(* Lookups: get_player_stats called name after name on one table, as the   *)
(* name-matching test does.  The record of a call keeps the name and the   *)
(* summary of the call before it.                                          *)
(***************************************************************************)
LookupRow(player, year) == EntryRow(player, "T", year, 3, 150, 10)

LookupYears == {2025, 2024, 2023, 2022, NaN}

\* V Kohli and KH Pandya played the latest season, the others last played
\* in one and the same year, or their year is missing
LookupTables ==
    { << LookupRow("V Kohli", 2025), LookupRow("HH Pandya", y), LookupRow("KH Pandya", 2025),
         LookupRow("MS Dhoni", y), LookupRow("N Tilak Varma", y) >> : y \in LookupYears }

\* names that resolve by substring, by fuzzy match, by last name and by
\* first name, each in two letter cases, names one character apart, and a
\* last name alone
LookupNames ==
    { "HH Pandya", "hh pandya", "KH Pandya", "Pandya",
      "Virat Kohli", "Virat Kohly", "VIRAT KOHLY",
      "Mahendra Singh Dhoni", "MAHENDRA SINGH DHONI",
      "Tilak Xyzzy", "tilak xyzzy" }

NoLookup == [name |-> None, result |-> NoneResult]

LookupInit ==
    /\ df \in LookupTables
    /\ entry_points = calculate_entry_points(df)
    /\ has_metric_cols = TRUE
    /\ conversation_history = <<>>
    /\ question = ""
    /\ call = Idle

GetPlayerStats(name) ==
    /\ call' = [op |-> "get_player_stats", name |-> name,
                result |-> get_player_stats(entry_points, has_metric_cols, name),
                before |-> IF call.op = "get_player_stats"
                           THEN [name |-> call.name, result |-> call.result]
                           ELSE NoLookup]
    /\ entry_points' = TableAfterLookup(entry_points, name)
    /\ UNCHANGED <<df, has_metric_cols, conversation_history, question>>

LookupNext == \E name \in LookupNames : GetPlayerStats(name)

LookupSpec == LookupInit /\ [][LookupNext]_vars

(***************************************************************************)
(* Processing: deliveries of up to two batsmen in one match, turned into   *)
(* entry points by the analyzer or by one of the scripts.                  *)
(***************************************************************************)
Batsmen == {"Test P", "V Kohli"}

Balls == {[Player |-> p, Match |-> "M1", Over |-> o] : p \in Batsmen, o \in 0..(LastOver + 1)}

RECURSIVE Deliveries(_)
Deliveries(n) ==
    IF n = 0 THEN {<<>>}
    ELSE LET shorter == Deliveries(n - 1)
         IN  shorter \cup {Append(t, b) : t \in shorter, b \in Balls}

ProcessingInit ==
    /\ df \in Deliveries(MaxBalls)
    /\ entry_points = <<>>
    /\ has_metric_cols = FALSE
    /\ conversation_history = <<>>
    /\ question = ""
    /\ call = Idle

\* CricketDataAnalyzer(df): the raw branch adds the Dot_Pct and Bnd_Pct columns
CreateAnalyzer ==
    /\ call = Idle
    /\ entry_points' = calculate_entry_points(df)
    /\ has_metric_cols' = (IsProcessed(df) => has_metric_cols)
    /\ call' = [op |-> "_calculate_entry_points"]
    /\ UNCHANGED <<df, conversation_history, question>>

ProcessBallByBall ==
    /\ call = Idle
    /\ call' = [op |-> "process_ballbyball_to_entry_points",
                result |-> process_ballbyball_to_entry_points(df)]
    /\ UNCHANGED <<df, entry_points, has_metric_cols, conversation_history, question>>

ProcessBallPosition ==
    /\ call = Idle
    /\ call' = [op |-> "process_ball_position_analysis",
                result |-> process_ball_position_analysis(df)]
    /\ UNCHANGED <<df, entry_points, has_metric_cols, conversation_history, question>>

ProcessingNext == CreateAnalyzer \/ ProcessBallByBall \/ ProcessBallPosition

ProcessingSpec == ProcessingInit /\ [][ProcessingNext]_vars

(***************************************************************************)
(* The AI Insights pages of the two dashboards.  Each run of a page reads   *)
(* the sidebar filters and, when a question was sent, hands it to the agent *)
(* kept in the session.  The cut on balls faced keeps every row of the      *)
(* table: the rows carry no count of balls.                                 *)
(***************************************************************************)
Phases == {"Powerplay", "Middle", "Death"}

\* the selections of the sidebar: every year, team and phase of the loaded
\* table by default, or fewer
SidebarFilters ==
    LET years == Range(Column(df, "Year"))
        teams == Range(Column(df, "Team"))
    IN  { [years |-> years, teams |-> teams, phases |-> Phases],
          [years |-> {2025}, teams |-> teams \ {"MI"}, phases |-> {"Powerplay", "Middle"}] }

\* corrected_entry_analysis_dashboard.py: the rows of the agent's table in
\* the selected years and teams
FilteredEntryPoints(original_entry_points, filters) ==
    SelectSeq(original_entry_points,
              LAMBDA r : r.Year \in filters.years /\ r.Team \in filters.teams)

\* ballbyball_entry_dashboard.py: the rows of the loaded table in the
\* selected years, teams and entry phases
FilteredDf(entry_df, filters) ==
    SelectSeq(entry_df,
              LAMBDA r : /\ r.Year \in filters.years
                         /\ r.Team \in filters.teams
                         /\ r.Entry_Phase \in filters.phases)

\* variant of the restore below that is made after a returned call only
RestoredOnReturnOnly(original_data, filtered_entry_points, outcome) ==
    IF outcome = "returned" THEN original_data ELSE filtered_entry_points

\* analyzer.entry_points after the Send handler: original_data is put back
\* after the call and, when the call raised, in the except branch
RestoredEntryPoints(original_data, filtered_entry_points, outcome) == original_data

\* the assistant message the Send handler appends to the chat: the answer
\* with the process of the last turn, or the apology of the except branch
\* when the call raised or conversation_history[-1] does
ChatMessage(out, history) ==
    IF out.call.outcome = "raised"
    THEN [role |-> "assistant",
          content |-> "I encountered an issue with the ReAct analysis: " \o out.call.value
                      \o ". Let me try a simpler approach to answer your question."]
    ELSE IF Len(history) = 0
    THEN [role |-> "assistant",
          content |-> "I encountered an issue with the ReAct analysis: list index out of range"
                      \o ". Let me try a simpler approach to answer your question."]
    ELSE [role |-> "assistant", content |-> out.call.value,
          react_process |-> [entities |-> history[Len(history)].entities,
                             actions |-> history[Len(history)].actions]]

\* a question the validator rejects and one that plans a lookup of a player
\* and one of a phase
DashboardQuestions ==
    { "When should I play Hardik Pandya against spin?",
      "How does Virat Kohli perform in the powerplay?" }

DashboardInit ==
    /\ df = SessionRows
    /\ entry_points = calculate_entry_points(df)
    /\ has_metric_cols \in BOOLEAN
    /\ conversation_history = <<>>
    /\ question = ""
    /\ call = Idle

\* corrected_entry_analysis_dashboard.py, Send: the filtered rows are swapped
\* in for the call and the original table is put back
SendCorrectedDashboard(q, filters) ==
    /\ Len(conversation_history) < MaxHistory
    /\ \E filtered_entry_points \in {FilteredEntryPoints(entry_points, filters)} :
       \E out \in answer_question(filtered_entry_points, has_metric_cols, q) :
           /\ conversation_history' = conversation_history \o out.turns
           /\ entry_points' = RestoredEntryPoints(entry_points, filtered_entry_points,
                                                  out.call.outcome)
           /\ call' = [op |-> "corrected_dashboard", filters |-> filters,
                       outcome |-> out.call.outcome,
                       message |-> ChatMessage(out, conversation_history \o out.turns)]
    /\ question' = q
    /\ UNCHANGED <<df, has_metric_cols>>

\* ballbyball_entry_dashboard.py, Get Answer: the agent gets a new analyzer
\* over the filtered table, then the question
GetAnswerBallByBallDashboard(q, filters) ==
    /\ Len(conversation_history) < MaxHistory
    /\ \E analyzer \in {calculate_entry_points(FilteredDf(df, filters))} :
           /\ entry_points' = analyzer
           /\ \E out \in answer_question(analyzer, has_metric_cols, q) :
                  /\ conversation_history' = conversation_history \o out.turns
                  /\ call' = [op |-> "ballbyball_dashboard", filters |-> filters,
                              outcome |-> out.call.outcome,
                              message |-> IF out.call.outcome = "returned" THEN out.call.value
                                          ELSE "Error: " \o out.call.value]
    /\ question' = q
    /\ UNCHANGED <<df, has_metric_cols>>

\* a question asked of the agent itself
AskAgent == \E q \in DashboardQuestions : AnswerQuestion(q)

SendCorrected ==
    \E q \in DashboardQuestions, filters \in SidebarFilters : SendCorrectedDashboard(q, filters)

GetAnswerBallByBall ==
    \E q \in DashboardQuestions, filters \in SidebarFilters :
        GetAnswerBallByBallDashboard(q, filters)

DashboardNext == AskAgent \/ SendCorrected \/ GetAnswerBallByBall

DashboardSpec == DashboardInit /\ [][DashboardNext]_vars

(***************************************************************************)
(* The analyzer over a squad: tables of up to SquadSize players, more than *)
(* a category of the diverse pool holds, with or without the two optional  *)
(* metric columns.                                                         *)
(***************************************************************************)
SquadSize == 17

\* player i of the squad entered in the given over once; strike rates rise
\* with i and runs fall
SquadRow(i, over) ==
    EntryRow("Player " \o ToString(i), "RCB", 2025, over, 100 + 4 * i, 40 - i)

Squad(n, over) == [i \in 1..n |-> SquadRow(i, over)]

\* squads of 3, of exactly the cap and of more than the cap, in the
\* powerplay or at the death; in some the first two players entered twice
SquadTables ==
    { Squad(n, over) \o Squad(again, over) :
        n \in {3, DiverseCap, SquadSize}, again \in {0, 2}, over \in {3, 17} }

SquadInit ==
    /\ df \in SquadTables
    /\ entry_points = calculate_entry_points(df)
    /\ has_metric_cols \in BOOLEAN
    /\ conversation_history = <<>>
    /\ question = ""
    /\ call = Idle

GetDiversePlayersForPhase(phase, min_matches) ==
    /\ call = Idle
    /\ call' = [op |-> "get_diverse_players_for_phase", phase |-> phase,
                min_matches |-> min_matches,
                result |-> get_diverse_players_for_phase(entry_points, has_metric_cols,
                                                         phase, min_matches)]
    /\ UNCHANGED <<df, entry_points, has_metric_cols, conversation_history, question>>

GetPhaseSummary(phase) ==
    /\ call = Idle
    /\ call' = [op |-> "get_phase_summary", phase |-> phase,
                result |-> get_phase_summary(entry_points, has_metric_cols, phase)]
    /\ UNCHANGED <<df, entry_points, has_metric_cols, conversation_history, question>>

\* get_player_stats of a player of the squad
GetSquadPlayerStats(name) ==
    /\ call = Idle
    /\ call' = [op |-> "get_player_stats", name |-> name,
                result |-> get_player_stats(entry_points, has_metric_cols, name)]
    /\ UNCHANGED <<df, entry_points, has_metric_cols, conversation_history, question>>

SquadNext ==
    \/ \E phase \in {"powerplay", "death"}, min_matches \in 1..MaxRows :
           GetDiversePlayersForPhase(phase, min_matches)
    \/ \E phase \in {"powerplay", "death"}, min_matches \in 1..MaxRows :
           GetBestPlayersForPhase(phase, min_matches)
    \/ \E phase \in {"powerplay", "death"} : GetPhaseSummary(phase)
    \/ \E name \in {"Player 2", "Player 99"} : GetSquadPlayerStats(name)

SquadSpec == SquadInit /\ [][SquadNext]_vars

(***************************************************************************)
(* The session asked about a player the table has no rows of, alone and    *)
(* next to a player it has rows of.                                        *)
(***************************************************************************)
UnresolvedQuestions ==
    { "What about David Warner?",
      "Compare Virat Kohli and David Warner",
      "Compare David Warner and Virat Kohli in the death overs" }

UnresolvedNext == \E q \in UnresolvedQuestions : AnswerQuestion(q)

UnresolvedSpec == Init /\ [][UnresolvedNext]_vars

(***************************************************************************)
(* The session asked for recommendations: the questions of                 *)
(* test_general_questions, and questions with no phase, with two phases    *)
(* and with player names.                                                  *)
(***************************************************************************)
RecommendationQuestions ==
    { "Who is best at death overs?",
      "Top performers in death overs",
      "Who are the best batsmen?",
      "Which players are best in the powerplay and at the death?",
      "Who is best at the death, Virat Kohli or Hardik Pandya?" }

RecommendationNext == \E q \in RecommendationQuestions : AnswerQuestion(q)

RecommendationSpec == Init /\ [][RecommendationNext]_vars

(***************************************************************************)
(* Lookups that match nothing, asked of the analyzer and through a         *)
(* question.                                                               *)
(***************************************************************************)
EmptyResultQuestions ==
    { "What about David Warner?",
      "Which players perform best in middle overs?" }

GetTeamStrategy(team_name) ==
    /\ call = Idle
    /\ call' = [op |-> "get_team_strategy", team_name |-> team_name,
                result |-> get_team_strategy(entry_points, team_name)]
    /\ UNCHANGED <<df, entry_points, has_metric_cols, conversation_history, question>>

ComparePlayers(player_names) ==
    /\ call = Idle
    /\ call' = [op |-> "compare_players", player_names |-> player_names,
                result |-> compare_players(entry_points, has_metric_cols, player_names)]
    /\ UNCHANGED <<df, entry_points, has_metric_cols, conversation_history, question>>

AskEmptyResultQuestion == \E q \in EmptyResultQuestions : AnswerQuestion(q)

EmptyResultNext ==
    \/ \E team_name \in {"CSK", "rcb"} : GetTeamStrategy(team_name)
    \/ \E player_names \in {<<"David Warner", "AB de Villiers">>, <<"Virat Kohli", "David Warner">>} :
           ComparePlayers(player_names)
    \/ \E phase \in {"middle", "death"}, min_matches \in 1..MaxRows :
           GetBestPlayersForPhase(phase, min_matches)
    \/ \E name \in {"David Warner", "Virat Kohli"} : GetSquadPlayerStats(name)
    \/ AskEmptyResultQuestion

EmptyResultSpec == Init /\ [][EmptyResultNext]_vars

(***************************************************************************)
(* Properties.                                                             *)
(***************************************************************************)
Answered == call.op = "answer_question"

LastTurn == conversation_history[Len(conversation_history)]

\* C1: answer_question returns a text for every question and every loaded
\* table and never raises: a failure in a lookup, in the observation builder
\* or in the model call ends as a returned answer.
C1_NeverRaises == Answered => call.outcome = "returned"

\* C2: when the model raises during _generate_response, on the first call or
\* on the re-prompt, the call still returns a non-empty string that contains
\* the whole observation text.
C2_FallbackCarriesObservations ==
    (Answered /\ call.model_raised) =>
        /\ call.outcome = "returned"
        /\ Len(call.value) > 0
        /\ Contains(call.value, call.observations)

\* the model raised on the re-prompt and the fallback answer was returned
C2_Witness ==
    /\ Answered /\ call.model_raised /\ call.llm_calls = 2
    /\ call.outcome = "returned"
    /\ Len(call.observations) > 0

AcceptedQuestions ==
    Phrases(AcceptedVocabulary, MaxWords) \cup AcceptedTestQuestions \cup PlayerQuestions

\* C4: a question that contains only accepted vocabulary (phase names, player
\* names, comparison phrasing, batting metrics) is valid for
\* _validate_question.
C4_AcceptedVocabularyValid ==
    (call.op = "_validate_question" /\ question \in AcceptedQuestions)
        => call.result.is_valid

\* C5: when the validator rejects the question, answer_question returns the
\* validator's message, runs no extraction, planning or lookup, makes no
\* model call and leaves conversation_history unchanged.
C5_RejectionShortCircuits ==
    [][ (call'.op = "answer_question" /\ ~validate_question(question').is_valid)
        => /\ call'.outcome = "returned"
           /\ call'.value = validate_question(question').message
           /\ call'.steps = {"validate"}
           /\ call'.llm_calls = 0
           /\ conversation_history' = conversation_history ]_vars

\* a question was rejected after an answered one, whose turn is still the last
C5_Witness ==
    /\ Answered /\ call.steps = {"validate"} /\ call.llm_calls = 0
    /\ ~validate_question(question).is_valid
    /\ Len(conversation_history) > 0
    /\ LastTurn.question # question

\* C6: after every call answer_question(q) that returns, conversation_history
\* is non-empty and its last turn is the turn of q: its question is q, its
\* entities and actions are those of q and its answer is the returned string.
C6_LastTurnIsThisQuestion ==
    (Answered /\ call.outcome = "returned") =>
        /\ Len(conversation_history) > 0
        /\ LastTurn.question = question
        /\ LastTurn.answer = call.value
        /\ LastTurn.entities = extract_entities(question)
        /\ LastTurn.actions = reason_and_plan(question, extract_entities(question))

\* C7: a question that mentions a bowling type is answered: the plan holds
\* note:bowling_type_unavailable, the observation text holds the data
\* limitation notice, and a known player named in it has statistics looked up.
C7_BowlingTypeQuestionAnswered ==
    (Answered /\ ContainsAny(Lower(question), <<"spin", "pace", "fast">>)) =>
        /\ call.outcome = "returned"
        /\ "plan" \in call.steps
        /\ Contains(call.observations, "DATA LIMITATION NOTICE")
        /\ Len(conversation_history) > 0
        /\ \E k \in 1..Len(LastTurn.actions) : LastTurn.actions[k] = "note:bowling_type_unavailable"
        /\ Contains(Lower(question), "hardik pandya")
               => Contains(call.observations, "PLAYER DATA FOR HARDIK PANDYA")

\* the lookups of a plan: its actions other than the note
Lookups(plan) == SelectSeq(plan, LAMBDA a : ActionType(a) # "note")

LookupKinds(plan) == {ActionType(a) : a \in Range(Lookups(plan))}

\* the lookups of a plan other than the per-player statistics lookups
PoolLookups(plan) == SelectSeq(plan, LAMBDA a : ActionType(a) \notin {"note", "get_player_stats"})

DiverseLookups ==
    <<"get_diverse_players_for_phase:powerplay",
      "get_diverse_players_for_phase:middle",
      "get_diverse_players_for_phase:death">>

WantsPlayerStats == Len(call.entities.players) > 0 /\ ~is_general_recommendation(question)

\* C8 as stated: the lookup rules are alternatives.  A batting-order question
\* yields exactly the three diverse-pool lookups; otherwise extracted players
\* (not a general query) yield only player lookups; otherwise phases yield
\* only best-for-phase lookups; no plan mixes lookup kinds.
C8_PlanOfOneKind ==
    call.op = "_reason_and_plan" =>
        /\ Cardinality(LookupKinds(call.result)) <= 1
        /\ is_batting_order_question(question) => Lookups(call.result) = DiverseLookups
        /\ (~is_batting_order_question(question) /\ WantsPlayerStats)
               => LookupKinds(call.result) = {"get_player_stats"}

\* C8 amended: the per-player lookups are added whenever players were
\* extracted and the question is not a general query, whatever else is
\* planned; only the other lookups are alternatives: exactly the three
\* diverse-pool lookups for a batting-order question, otherwise only
\* best-for-phase lookups, one per extracted phase.
C8_PlayerLookupsAddedToChain ==
    call.op = "_reason_and_plan" =>
        /\ Cardinality(LookupKinds(call.result) \ {"get_player_stats"}) <= 1
        /\ ("get_player_stats" \in LookupKinds(call.result)) <=> WantsPlayerStats
        /\ WantsPlayerStats =>
               SelectSeq(call.result, LAMBDA a : ActionType(a) = "get_player_stats")
                   = [k \in 1..Len(call.entities.players) |->
                         "get_player_stats:" \o call.entities.players[k]]
        /\ is_batting_order_question(question) => PoolLookups(call.result) = DiverseLookups
        /\ (~is_batting_order_question(question) /\ Len(call.entities.phases) > 0)
               => PoolLookups(call.result)
                      = [k \in 1..Len(call.entities.phases) |->
                            "get_best_players_for_phase:" \o call.entities.phases[k]]

\* a batting-order question that names a player: player and pool lookups
C8_Witness ==
    /\ call.op = "_reason_and_plan"
    /\ is_batting_order_question(question)
    /\ WantsPlayerStats
    /\ LookupKinds(call.result) = {"get_player_stats", "get_diverse_players_for_phase"}

HasAny(question_lower, words) == \E w \in words : Contains(question_lower, w)

\* the substrings without which no player pattern matches, and the keywords
NoPlayerNoKeyword(question_lower) ==
    ~HasAny(question_lower,
            {"pandy", "kohli", "dhoni", "rohit", "rahul", "warner", "villiers", "abd",
             "spin", "pace", "fast", "powerplay", "power play", "death", "final over",
             "last over", "middle", "when", "should", "deploy", "play", "best", "top",
             "who", "compare", "vs", "versus"})

\* C9: the intent is deployment if the question contains when, should, deploy
\* or play; otherwise recommendation if it contains best, top or who;
\* otherwise comparison if it contains compare, vs or versus; otherwise
\* general.  A question with no player pattern and no keyword gives empty
\* players, bowling_types and phases and intent general.
C9_IntentByPriority ==
    call.op = "_extract_entities" =>
        LET question_lower == Lower(question)
        IN  /\ call.result.intent =
                   (IF HasAny(question_lower, {"when", "should", "deploy", "play"})
                    THEN "deployment"
                    ELSE IF HasAny(question_lower, {"best", "top", "who"})
                    THEN "recommendation"
                    ELSE IF HasAny(question_lower, {"compare", "vs", "versus"})
                    THEN "comparison"
                    ELSE "general")
            /\ NoPlayerNoKeyword(question_lower) =>
                   /\ call.result.players = <<>>
                   /\ call.result.bowling_types = <<>>
                   /\ call.result.phases = <<>>
                   /\ call.result.intent = "general"

\* a question with words of all three groups got the deployment intent
C9_Witness ==
    /\ call.op = "_extract_entities"
    /\ HasAny(Lower(question), {"when", "should", "deploy", "play"})
    /\ HasAny(Lower(question), {"best", "top", "who"})
    /\ HasAny(Lower(question), {"compare", "vs", "versus"})
    /\ call.result.intent = "deployment"

\* the rows of the table that player p entered in the phase
PhaseRows(p, phase) ==
    SelectSeq(entry_points, LAMBDA r : r.Player = p /\ r.Entry_Phase = TargetPhase(phase))

\* C10: get_best_players_for_phase(phase, min_matches) returns only players
\* with at least min_matches entry points in the phase, in non-increasing
\* order of their mean strike rate.
C10_MinMatchesAndDescending ==
    (call.op = "get_best_players_for_phase" /\ call.result.kind = "list") =>
        LET items == call.result.items
            rowsOf(k) == PhaseRows(items[k].player, call.phase)
            sum(k) == SumSeq(Column(rowsOf(k), "Final_Strike_Rate"))
        IN  /\ \A k \in 1..Len(items) : Len(rowsOf(k)) >= call.min_matches
            /\ \A k \in 1..(Len(items) - 1) :
                   sum(k) * Len(rowsOf(k + 1)) >= sum(k + 1) * Len(rowsOf(k))

\* two players of the phase were returned, the one with the higher mean
\* first although the other one comes first in the table
C10_Witness ==
    /\ call.op = "get_best_players_for_phase"
    /\ call.result.kind = "list"
    /\ call.min_matches = 1
    /\ Len(call.result.items) = 2
    /\ call.result.items[1].avg_strike_rate > call.result.items[2].avg_strike_rate
    /\ entry_points[1].Player = call.result.items[2].player
    /\ entry_points[1].Entry_Phase = TargetPhase(call.phase)

\* the table holds entries of "Test P" only, three of them at the death,
\* with strike rates 100, 150 and 200
TestPScenario ==
    LET death == PhaseRows("Test P", "death")
    IN  /\ \A i \in 1..Len(entry_points) : entry_points[i].Player = "Test P"
        /\ Len(death) = 3
        /\ \E f \in [1..3 -> 1..3] :
               /\ \A i, j \in 1..3 : i # j => f[i] # f[j]
               /\ death[f[1]].Final_Strike_Rate = 100
               /\ death[f[2]].Final_Strike_Rate = 150
               /\ death[f[3]].Final_Strike_Rate = 200

\* C11: the avg_strike_rate get_best_players_for_phase reports for a player
\* is the mean (rounded to one decimal) of the strike rates of the player's
\* entries in the requested phase only, and matches is their number; for
\* "Test P" with three death entries at 100, 150 and 200 and
\* ("death", min_matches = 1) the result is exactly "Test P" with average
\* 150.0 and 3 matches.
C11_MeanOfPhaseEntries ==
    (call.op = "get_best_players_for_phase" /\ call.result.kind = "list") =>
        LET items == call.result.items
        IN  /\ \A k \in 1..Len(items) :
                   LET mine == PhaseRows(items[k].player, call.phase)
                   IN  /\ Len(mine) > 0
                       /\ items[k].matches = Len(mine)
                       /\ items[k].avg_strike_rate =
                              Round1(SumSeq(Column(mine, "Final_Strike_Rate")), Len(mine))
            /\ (TestPScenario /\ call.phase = "death" /\ call.min_matches = 1) =>
                   /\ Len(items) = 1
                   /\ items[1].player = "Test P"
                   /\ items[1].avg_strike_rate = 10 * 150
                   /\ items[1].matches = 3

\* the scenario was asked for the death-phase players
C11_Witness ==
    /\ call.op = "get_best_players_for_phase"
    /\ call.result.kind = "list"
    /\ TestPScenario
    /\ call.phase = "death"
    /\ call.min_matches = 1
    /\ Len(call.result.items) = 1

\* the phase an entry over falls in: up to 6 powerplay, 7 to 15 middle, 16
\* and later death
PhaseByThresholds(over) ==
    IF over <= 6 THEN "Powerplay" ELSE IF over >= 7 /\ over <= 15 THEN "Middle" ELSE "Death"

\* the class a label names: the label up to its first blank
FirstWord(label) ==
    IF Contains(label, " ") THEN SubSeq(label, 1, Find(label, " ", 1) - 1) ELSE label

\* the entry points or deliveries the last operation derived a phase for
Derived ==
    IF call.op = "_calculate_entry_points" THEN entry_points
    ELSE IF call.op \in {"process_ballbyball_to_entry_points", "process_ball_position_analysis"}
    THEN call.result
    ELSE <<>>

\* C12: every entry phase the program derives follows from the entry over
\* by the thresholds: up to 6 Powerplay, 7 to 15 Middle, 16 or more Death.
C12_PhaseByThresholds ==
    \A i \in 1..Len(Derived) :
        FirstWord(Derived[i].Entry_Phase) = PhaseByThresholds(Derived[i].Entry_Over)

\* the entry-point records the last operation built by grouping deliveries
Grouped ==
    IF call.op = "_calculate_entry_points" THEN entry_points
    ELSE IF call.op = "process_ballbyball_to_entry_points" THEN call.result
    ELSE <<>>

\* C22: every entry-point record built by grouping ball-level rows has its
\* entry over not after its exit over and an innings duration of at least
\* one, in the analyzer's aggregation and in the ball-by-ball preprocessing.
C22_EntryNotAfterExit ==
    \A i \in 1..Len(Grouped) :
        /\ Grouped[i].Entry_Over <= Grouped[i].Exit_Over
        /\ Grouped[i].Innings_Duration >= 1

\* the preprocessing clipped the exit over of a batsman who entered before
\* the last over and faced a delivery numbered after it
C22_Witness ==
    /\ call.op = "process_ballbyball_to_entry_points"
    /\ \E b \in 1..Len(df) : df[b].Over > LastOver
    /\ Len(call.result) = 1
    /\ call.result[1].Entry_Over < LastOver
    /\ call.result[1].Exit_Over = LastOver

DiverseCategories ==
    <<"aggressive_strikers", "consistent_scorers", "boundary_hitters",
      "strike_rotators", "experienced", "balanced">>

\* the six capped lists of players with enough entries in the phase
SixCappedCategories(result, phase, min_matches) ==
    /\ result.kind = "categories"
    /\ [k \in 1..Len(result.categories) |-> result.categories[k].category] = DiverseCategories
    /\ \A k \in 1..Len(result.categories) :
           LET players == result.categories[k].players
           IN  /\ Len(players) <= DiverseCap
               /\ \A i \in 1..Len(players) :
                      /\ Len(PhaseRows(players[i].player, phase)) >= min_matches
                      /\ result.categories[k].category = "balanced" =>
                             /\ players[i].avg_strike_rate >= 10 * BalancedMinSR
                             /\ players[i].avg_strike_rate <= 10 * BalancedMaxSR

\* C23: get_diverse_players_for_phase always returns exactly the six
\* categories, each with at most 15 players, every listed player with at
\* least min_matches entries in the phase and every balanced player with a
\* mean strike rate between 120 and 150 inclusive.
C23_SixCappedCategories ==
    call.op = "get_diverse_players_for_phase" =>
        SixCappedCategories(call.result, call.phase, call.min_matches)

\* a keyword of the group occurs in the question and no exception covers it
GroupMatches(g, question_lower) ==
    \E k \in 1..Len(unavailable_concepts[g].keywords) :
        LET keyword == unavailable_concepts[g].keywords[k]
        IN  /\ Contains(question_lower, keyword)
            /\ ~(keyword = "against" /\ AgainstAllowed(question_lower))

MatchingGroups(question_lower) ==
    {g \in 1..Len(unavailable_concepts) : GroupMatches(g, question_lower)}

\* the result is a rejection with the message template of group g
RejectedByGroup(result, g) ==
    /\ ~result.is_valid
    /\ \E k \in 1..Len(unavailable_concepts[g].keywords) :
           result.message = RejectionMessage(unavailable_concepts[g].type,
                                             unavailable_concepts[g].keywords[k])

\* C24: when keywords of several unavailable-concept groups match a
\* question, the rejection and its message template are those of the first
\* matching group in the validator's fixed order, wherever the keywords
\* stand in the text.
C24_FirstGroupInOrderDecides ==
    (call.op = "_validate_question" /\ Cardinality(MatchingGroups(Lower(question))) >= 2) =>
        RejectedByGroup(call.result, Min(MatchingGroups(Lower(question))))

\* the venue keyword stands before the bowling-type keyword in the text and
\* the question is rejected for the bowling type
C24_Witness ==
    /\ call.op = "_validate_question"
    /\ question = "venue spin"
    /\ MatchingGroups(Lower(question)) = {1, 7}
    /\ call.result.message = RejectionMessage("bowling_type", "spin")

\* the word stands in the text as a word of its own
OccursAsWord(s, word) ==
    \E p \in 1..(Len(s) - Len(word) + 1) :
        /\ SubSeq(s, p, p + Len(word) - 1) = word
        /\ Boundary(s, p)
        /\ Boundary(s, p + Len(word))

\* the question names a team or compares players
Accompanied(question_lower) ==
    \/ \E i \in 1..Len(team_words) : OccursAsWord(question_lower, team_words[i])
    \/ Contains(question_lower, "compare")
    \/ ContainsAny(question_lower, comparison_names)

OtherKeyword(question_lower) ==
    \E i \in 1..Len(KeywordList) :
        /\ KeywordList[i].keyword # "against"
        /\ Contains(question_lower, KeywordList[i].keyword)

\* C25: a question with "against" that also holds a team word or code, or
\* a comparison phrase, is valid exactly when no other unavailable keyword
\* occurs in it; a question with "against" and no such phrase is rejected.
C25_AgainstNeedsTeamOrComparison ==
    (call.op = "_validate_question" /\ Contains(Lower(question), "against")) =>
        IF Accompanied(Lower(question))
        THEN call.result.is_valid <=> ~OtherKeyword(Lower(question))
        ELSE ~call.result.is_valid

Planned == call.op = "_reason_and_plan"

\* the data lookups of a plan: its actions other than notes
DataLookups(plan) == SelectSeq(plan, LAMBDA action : ~StartsWith(action, "note:"))

\* none of the planner's lookup rules applies to the question
NoRuleLooksUp(q, entities) ==
    /\ ~is_batting_order_question(q)
    /\ ~(Len(entities.players) > 0 /\ ~is_general_recommendation(q))
    /\ Len(entities.phases) = 0
    /\ ~is_general_recommendation(q)
    /\ ~(entities.intent = "recommendation" /\ Len(entities.players) = 0)

\* C26: when none of the planner's rules 1 to 4 plans a data lookup the
\* plan holds exactly one data lookup, get_best_players_for_phase:powerplay;
\* so every plan is non-empty and holds at least one data lookup.
C26_DefaultPowerplayLookup ==
    Planned =>
        /\ Len(call.result) > 0
        /\ Len(DataLookups(call.result)) > 0
        /\ NoRuleLooksUp(question, call.entities) =>
               DataLookups(call.result) = <<"get_best_players_for_phase:powerplay">>

Looked == call.op = "get_player_stats"

Resolved(result) == result.kind = "stats"

C14_CaseInsensitive ==
    (Looked /\ call.before.name # None /\ Lower(call.before.name) = Lower(call.name)) =>
        call.result = call.before.result

\* the lower-case spelling of a name was looked up after the name itself and
\* resolved by its first name, the last layer
C14_Witness ==
    /\ Looked
    /\ call.before.name = "Tilak Xyzzy"
    /\ call.name = "tilak xyzzy"
    /\ Resolved(call.result)
    /\ call.result.name = "N Tilak Varma"

\* b is a with one character replaced, removed or added
OneEdit(a, b) ==
    LET without(x, k) == SubSeq(x, 1, k - 1) \o SubSeq(x, k + 1, Len(x))
    IN  \/ /\ Len(a) = Len(b)
           /\ Cardinality({i \in 1..Len(a) : CharAt(a, i) # CharAt(b, i)}) = 1
        \/ /\ Len(a) = Len(b) + 1
           /\ \E k \in 1..Len(a) : without(a, k) = b
        \/ /\ Len(b) = Len(a) + 1
           /\ \E k \in 1..Len(b) : without(b, k) = a

\* difflib's ratio of a typed name and a player of the table
Similarity(name, player) == Ratio(Lower(name), Lower(player))

TablePlayerNames == Range(Column(entry_points, "Player"))

\* the call before resolved a name to one player and this call looked up a
\* name one edit away that is within the cutoff of that player's name
EditedLookup ==
    /\ Looked
    /\ call.before.name # None
    /\ Resolved(call.before.result)
    /\ OneEdit(call.before.name, call.name)
    /\ RatioAtLeastCutoff(Similarity(call.name, call.before.result.name))

NoRival(name, player) ==
    \A p \in TablePlayerNames \ {player} :
        /\ ~Contains(Lower(p), Lower(name))
        /\ Similarity(name, player)[1] * Similarity(name, p)[2]
               > Similarity(name, p)[1] * Similarity(name, player)[2]
        /\ ~(Range(SplitWords(Lower(name))) \subseteq Range(SplitWords(Lower(p))))

YearsOf(player) == Range(Column(RowsOfPlayer(entry_points, player), "Year"))

\* the recency class of a gap of d years
ClassOfGap(d) ==
    IF d = 0 THEN "ACTIVE" ELSE IF d = 1 THEN "RECENT"
    ELSE IF d = 2 THEN "SEMI-RECENT" ELSE "HISTORICAL"

\* C16: the recency status of a resolved player is the class of the gap
\* between the latest year of the table and the player's latest year:
\* ACTIVE for 0, RECENT for 1, SEMI-RECENT for 2, HISTORICAL otherwise, and
\* never anything else.
C16_RecencyByYearGap ==
    (Looked /\ Resolved(call.result)) =>
        /\ FirstWord(call.result.recency_status)
               \in {"ACTIVE", "RECENT", "SEMI-RECENT", "HISTORICAL"}
        /\ FirstWord(call.result.recency_status) =
               ClassOfGap(Max(Range(Column(entry_points, "Year")))
                          - Max(YearsOf(call.result.name)))

\* steps 1 to 3 of the last call, over the table the agent holds
LastReason == Reason(entry_points, has_metric_cols, question)

\* the planned per-player lookups of r that resolved no player
UnresolvedLookups(r) ==
    {k \in 1..Len(r.action_results) :
        /\ StartsWith(r.action_results[k].action, "get_player_stats:")
        /\ r.action_results[k].result.kind = "none"}

\* no lookup of r failed with an error
NoLookupFailed(r) ==
    \A k \in 1..Len(r.action_results) :
        \/ StartsWith(r.action_results[k].action, "note:")
        \/ r.action_results[k].result.kind # "text"

\* the last call ran its lookups, none failed and one resolved no player
UnresolvedName ==
    /\ call.op = "answer_question"
    /\ "execute" \in call.steps
    /\ UnresolvedLookups(LastReason) # {}
    /\ NoLookupFailed(LastReason)

\* C17: when a planned per-player lookup resolves no player, also after the
\* retry word by word, answer_question still returns and the observation
\* text given to the response generator says that no data was retrieved.
C17_UnresolvedNameObserved ==
    UnresolvedName =>
        /\ call.outcome = "returned"
        /\ Contains(call.observations, NoData)

\* the validator was applied to the question about the economy rate
EconomyQuestionValidated ==
    /\ call.op = "_validate_question"
    /\ question = EconomyQuestion

\* C18: the question "What is the economy rate of Test Bowler?" is rejected
\* and the rejection message mentions "bowling type" or "economy".
C18_EconomyQuestionMessage ==
    EconomyQuestionValidated =>
        /\ ~call.result.is_valid
        /\ \/ Contains(Lower(call.result.message), "bowling type")
           \/ Contains(Lower(call.result.message), "economy")

\* the last call reached the response generator with player data in the
\* observation text and no call of the model raised
AnsweredFromPlayerData ==
    /\ call.op = "answer_question"
    /\ "respond" \in call.steps
    /\ ~call.model_raised
    /\ Len(PlayersWithData(call.observations)) > 0

\* C19: when the observation text holds a "PLAYER DATA FOR <NAME>" block and
\* the model calls succeed, the returned text mentions, in any letter case,
\* at least one of the players with data, also when the text is the reply to
\* the simplified re-prompt.
C19_AnswerMentionsPlayerWithData ==
    AnsweredFromPlayerData =>
        ~NoPlayerMentioned(Lower(call.value), PlayersWithData(call.observations))

\* the last question came through a dashboard
ThroughCorrectedDashboard == call.op = "corrected_dashboard"

ThroughBallByBallDashboard == call.op = "ballbyball_dashboard"

\* C20 as stated: after any sequence of questions, asked of the agent or
\* through a dashboard, the analyzer holds the table it was created over.
C20_EntryPointsAsLoaded == entry_points = calculate_entry_points(df)

\* C20: no question modifies the loaded table; a question asked of the agent
\* or through the page that swaps the filtered rows in leaves the analyzer's
\* table as it was before the question, whether the call returned or raised;
\* a question through the page that replaces the analyzer leaves the table
\* of the loaded rows that pass the filters of the moment.
C20_LoadedTableReadOnly ==
    [][/\ df' = df
       /\ call'.op # "ballbyball_dashboard" => entry_points' = entry_points
       /\ call'.op = "ballbyball_dashboard" =>
              entry_points' = calculate_entry_points(FilteredDf(df, call'.filters))]_vars

\* a question sent with filters that leave rows out raised an error and the
\* analyzer holds the whole table again
C20_Witness ==
    /\ ThroughCorrectedDashboard
    /\ call.outcome = "raised"
    /\ FilteredEntryPoints(entry_points, call.filters) # entry_points
    /\ entry_points = calculate_entry_points(df)

\* an operation of the analyzer was called
AnalyzerCalled ==
    call.op \in {"get_player_stats", "get_best_players_for_phase",
                 "get_diverse_players_for_phase", "get_phase_summary"}

\* C21: over a table without the optional metric columns no operation of the
\* analyzer raises, and the dot and boundary percentages it reports are 0.
C21_MissingColumnsDefaultZero ==
    (AnalyzerCalled /\ ~has_metric_cols) =>
        /\ call.result.kind # "raise"
        /\ call.result.kind \in {"stats", "summary"} =>
               call.result.avg_dot_pct = 0 /\ call.result.avg_bnd_pct = 0
        /\ call.result.kind = "list" =>
               \A k \in 1..Len(call.result.items) :
                   call.result.items[k].avg_dot_pct = 0 /\ call.result.items[k].avg_bnd_pct = 0

\* the question is no batting-order request and asks for a recommendation
\* with no specific player or for the best in general
RecommendationAsked(q, entities) ==
    /\ ~is_batting_order_question(q)
    /\ \/ is_general_recommendation(q)
       \/ (entities.intent = "recommendation" /\ Len(entities.players) = 0)

\* one best-players lookup per phase, for the death phase when there is none
RecommendedLookups(phases) ==
    IF Len(phases) = 0 THEN <<"get_best_players_for_phase:death">>
    ELSE [i \in 1..Len(phases) |-> "get_best_players_for_phase:" \o phases[i]]

\* a phase lookup of r returned players
PhaseResultNonEmpty(r) ==
    \E k \in 1..Len(r.action_results) :
        /\ StartsWith(r.action_results[k].action, "get_best_players_for_phase:")
        /\ r.action_results[k].result.kind = "list"
        /\ Len(r.action_results[k].result.items) > 0

\* C27: for a question that is no batting-order request and asks for a
\* recommendation with no specific player, or for the best in general, the
\* plan holds one get_best_players_for_phase lookup per extracted phase, or
\* the one for the death phase when there is none, and no get_player_stats;
\* with a non-empty phase result the observation text holds a TOP
\* PERFORMERS block.
C27_GeneralQuestionPlansPhaseLookups ==
    (call.op = "answer_question" /\ "plan" \in call.steps) =>
        LET r == LastReason
        IN  RecommendationAsked(question, r.entities) =>
                /\ DataLookups(r.planned_actions) = RecommendedLookups(r.entities.phases)
                /\ PhaseResultNonEmpty(r) =>
                       /\ call.outcome = "returned"
                       /\ Contains(call.observations, "TOP PERFORMERS")

\* a general question that names players was answered from the death-phase
\* list alone
C27_Witness ==
    /\ call.op = "answer_question"
    /\ "plan" \in call.steps
    /\ Len(LastReason.entities.players) > 0
    /\ Len(LastReason.entities.phases) > 0
    /\ RecommendationAsked(question, LastReason.entities)
    /\ PhaseResultNonEmpty(LastReason)
    /\ Contains(call.observations, "TOP PERFORMERS")

\* the first reply echoes the observations after the fallback heading
EchoesObservations(reply, observations) ==
    /\ reply # Raised
    /\ StartsWith(reply, FallbackHeading)
    /\ Contains(reply, observations)

\* C28: answer_question calls the model at most twice: not at all when the
\* validator rejects, once when the question is answered, and a second time
\* only when the observations hold player data and the first reply starts
\* with "Based on the data analysis:" and contains the observation text; a
\* call that raised is the last call, and the fallback answer is returned.
C28_AtMostTwoModelCalls ==
    call.op = "answer_question" =>
        /\ call.llm_calls = Len(call.replies)
        /\ call.llm_calls <= 2
        /\ call.steps = {"validate"} => call.llm_calls = 0
        /\ "respond" \in call.steps => call.llm_calls >= 1
        /\ call.llm_calls = 2 =>
               /\ Len(PlayersWithData(call.observations)) > 0
               /\ EchoesObservations(call.replies[1], call.observations)
        /\ \A k \in 1..Len(call.replies) :
               call.replies[k] = Raised =>
                   /\ k = Len(call.replies)
                   /\ call.value = FallbackAnswer(call.observations, ModelError)

\* the re-prompt after an echoed first reply raised and the fallback answer
\* was returned
C28_Witness ==
    /\ call.op = "answer_question"
    /\ call.llm_calls = 2
    /\ EchoesObservations(call.replies[1], call.observations)
    /\ call.replies[2] = Raised
    /\ call.value = FallbackAnswer(call.observations, ModelError)

\* no player of the table has min_matches entries in the phase
NoPlayerInPhase(phase, min_matches) ==
    \A p \in TablePlayerNames : Len(PhaseRows(p, phase)) < min_matches

\* no row of the table is of a team with the name
NoRowsOfTeam(team_name) ==
    \A i \in 1..Len(entry_points) : ~Contains(Lower(entry_points[i].Team), Lower(team_name))

\* no player of the table holds a word of the name or is within the fuzzy
\* cutoff of it
NoNameMatch(name) ==
    \A p \in TablePlayerNames :
        /\ \A w \in Range(SplitWords(Lower(name))) : ~Contains(Lower(p), w)
        /\ 10 * Similarity(name, p)[1] < FuzzyCutoffTenths * Similarity(name, p)[2]

\* every lookup of the last question gave None or an empty structure
EveryResultEmpty(r) ==
    \A k \in 1..Len(r.action_results) : ~Truthy(r.action_results[k].result)

\* C29: a lookup that matches nothing returns an empty structure instead
\* of raising (get_best_players_for_phase an empty list, get_team_strategy
\* and compare_players an empty dict, get_player_stats None), and when
\* every action result is None or empty _analyze_results returns exactly
\* "No specific data retrieved".
C29_NothingMatchedGivesEmpty ==
    /\ (call.op = "get_best_players_for_phase" /\ NoPlayerInPhase(call.phase, call.min_matches))
           => call.result = [kind |-> "list", items |-> <<>>]
    /\ (call.op = "get_team_strategy" /\ NoRowsOfTeam(call.team_name))
           => call.result = EmptyDict
    /\ (/\ call.op = "compare_players"
        /\ \A i \in 1..Len(call.player_names) : NoNameMatch(call.player_names[i]))
           => call.result = EmptyDict
    /\ (call.op = "get_player_stats" /\ NoNameMatch(call.name))
           => call.result = NoneResult
    /\ (call.op = "answer_question" /\ "execute" \in call.steps /\ EveryResultEmpty(LastReason))
           => /\ call.outcome = "returned"
              /\ call.observations = NoData

\* C30: every summary get_player_stats returns describes exactly one
\* player of the table: total_matches is the number of entry-point records
\* of the player in its name field.
C30_SummaryOfOnePlayer ==
    (Looked /\ Resolved(call.result)) =>
        call.result.total_matches
            = Len(SelectSeq(entry_points, LAMBDA r : r.Player = call.result.name))

====
